---------------------------- MODULE Spec2Model ----------------------------
(***************************************************************************)
(* Model of the hampuff-sms registration store (src/models.py), the SMS    *)
(* handler (src/services/sms_service.py) and the registration / opt-in     *)
(* endpoints of the web layer (src/app.py).                                *)
(*                                                                         *)
(* Text is modelled as a sequence of one-character strings, so that        *)
(* strip(), lower(), split() and the phone normalisation are computed the  *)
(* way the code computes them.  A reply is a sequence of text segments     *)
(* (the pieces an f-string concatenates).                                  *)
(***************************************************************************)
EXTENDS Integers, Sequences, FiniteSets, TLC

(***************************************************************************)
(* Bounds of the model.                                                    *)
(***************************************************************************)
\* number of requests the server handles concurrently
NumProcs == 2
\* number of requests received in a behaviour
MaxRequests == 3

\* the seconds the clock may advance
MaxClock == 1

Procs == 1..NumProcs

(***************************************************************************)
(* Text helpers: Python str methods on sequences of characters.            *)
(***************************************************************************)
Digits == {"0", "1", "2", "3", "4", "5", "6", "7", "8", "9"}

Whitespace == {" ", "\t", "\n", "\r"}

UpperCase == <<"A", "B", "C", "D", "E", "F", "G", "H", "I", "J", "K", "L", "M",
               "N", "O", "P", "Q", "R", "S", "T", "U", "V", "W", "X", "Y", "Z">>

LowerCase == <<"a", "b", "c", "d", "e", "f", "g", "h", "i", "j", "k", "l", "m",
               "n", "o", "p", "q", "r", "s", "t", "u", "v", "w", "x", "y", "z">>

ToLowerChar(c) ==
    IF \E i \in 1..26 : UpperCase[i] = c
    THEN LowerCase[CHOOSE i \in 1..26 : UpperCase[i] = c]
    ELSE c

ToUpperChar(c) ==
    IF \E i \in 1..26 : LowerCase[i] = c
    THEN UpperCase[CHOOSE i \in 1..26 : LowerCase[i] = c]
    ELSE c

\* str.lower()
Lower(s) == [i \in 1..Len(s) |-> ToLowerChar(s[i])]

\* str.upper()
Upper(s) == [i \in 1..Len(s) |-> ToUpperChar(s[i])]

RECURSIVE LStrip(_)
LStrip(s) ==
    IF Len(s) > 0 /\ s[1] \in Whitespace THEN LStrip(Tail(s)) ELSE s

RECURSIVE RStrip(_)
RStrip(s) ==
    IF Len(s) > 0 /\ s[Len(s)] \in Whitespace
    THEN RStrip(SubSeq(s, 1, Len(s) - 1))
    ELSE s

\* str.strip()
Strip(s) == RStrip(LStrip(s))

\* sub in s
Contains(sub, s) ==
    \E i \in 1..(Len(s) - Len(sub) + 1) : SubSeq(s, i, i + Len(sub) - 1) = sub

\* s.startswith(pre)
StartsWith(s, pre) ==
    Len(s) >= Len(pre) /\ SubSeq(s, 1, Len(pre)) = pre

\* length of the leading run of non-whitespace characters
RECURSIVE WordLen(_)
WordLen(s) ==
    IF Len(s) = 0 \/ s[1] \in Whitespace THEN 0 ELSE 1 + WordLen(Tail(s))

\* str.split(): the whitespace-separated words
RECURSIVE Split(_)
Split(s) ==
    LET t == LStrip(s)
        n == WordLen(t)
    IN  IF Len(t) = 0 THEN <<>>
        ELSE <<SubSeq(t, 1, n)>> \o Split(SubSeq(t, n + 1, Len(t)))

\* ''.join(c for c in s if keep(c)), for keep = "digit or +"
RECURSIVE KeepDigitsPlus(_)
KeepDigitsPlus(s) ==
    IF Len(s) = 0 THEN <<>>
    ELSE IF s[1] \in Digits \/ s[1] = "+"
         THEN <<s[1]>> \o KeepDigitsPlus(Tail(s))
         ELSE KeepDigitsPlus(Tail(s))

(***************************************************************************)
(* PhoneNormalizer: RegistrationDatabase.normalize_phone_number.           *)
(* The phonenumbers library is modelled for the North American plan only:  *)
(* parse needs "+1" and digits, a number is valid when it has ten digits   *)
(* with area code and exchange starting 2..9 and an assigned area code     *)
(* (555 is not assigned).                                                  *)
(***************************************************************************)
\* variant: +1 is put before every string that has no +
CleanPhoneAlwaysPrefix(raw) ==
    LET cleaned == KeepDigitsPlus(raw)
    IN  IF StartsWith(cleaned, <<"+">>) THEN cleaned
        ELSE <<"+", "1">> \o cleaned

\* variant: +1 is put before every string, also one that starts with +
CleanPhonePrefixAll(raw) == <<"+", "1">> \o KeepDigitsPlus(raw)

\* lines 68-80: keep digits and +, then prefix
CleanPhone(raw) ==
    LET cleaned == KeepDigitsPlus(raw)
    IN  IF StartsWith(cleaned, <<"+">>) THEN cleaned
        ELSE IF StartsWith(cleaned, <<"1">>) /\ Len(cleaned) = 11
             THEN <<"+">> \o cleaned
        ELSE IF Len(cleaned) = 10 THEN <<"+", "1">> \o cleaned
        ELSE <<"+", "1">> \o cleaned

\* phonenumbers.parse(cleaned, None) succeeds (else NumberParseException)
ParseOk(cleaned) ==
    /\ Len(cleaned) >= 4
    /\ Len(cleaned) <= 18
    /\ cleaned[1] = "+"
    /\ cleaned[2] = "1"
    /\ \A i \in 2..Len(cleaned) : cleaned[i] \in Digits

\* national significant number of a parsed +1 number
NationalNumber(cleaned) == SubSeq(cleaned, 3, Len(cleaned))

\* phonenumbers.is_valid_number(parsed)
IsValidNumber(cleaned) ==
    LET nsn == NationalNumber(cleaned)
    IN  /\ Len(nsn) = 10
        /\ nsn[1] \in Digits \ {"0", "1"}
        /\ nsn[4] \in Digits \ {"0", "1"}
        /\ SubSeq(nsn, 1, 3) # <<"5", "5", "5">>

\* lines 89-91: the 555 test range is let through
IsTestRange(cleaned) ==
    StartsWith(cleaned, <<"+", "1", "5", "5", "5">>) /\ Len(cleaned) = 12

\* phonenumbers.format_number(parsed, E164)
FormatE164(cleaned) == <<"+", "1">> \o NationalNumber(cleaned)

\* normalize_phone_number: [ok, value] ; ok = FALSE stands for ValueError
NormalizePhone(raw) ==
    LET cleaned == CleanPhone(raw)
    IN  IF ~ParseOk(cleaned)
        THEN [ok |-> FALSE, value |-> <<>>, error |-> "Could not parse phone number"]
        ELSE IF ~IsValidNumber(cleaned) /\ ~IsTestRange(cleaned)
        THEN [ok |-> FALSE, value |-> <<>>, error |-> "Invalid phone number"]
        ELSE [ok |-> TRUE, value |-> FormatE164(cleaned), error |-> ""]

(***************************************************************************)
(* RegistrationStore: the registrations table and the queries on it.       *)
(* The table is the sequence of its rows in insertion order; every query   *)
(* below is one SQLite statement on its own connection, hence atomic.      *)
(* The columns ip_address and user_agent, written by the INSERT alone and   *)
(* read by no code, are left out.                                          *)
(***************************************************************************)
\* CURRENT_TIMESTAMP of SQLite: the wall clock, read to the second
VARIABLE now

\* SELECT * FROM registrations WHERE phone_normalized = ? ; fetchone()
SelectByNormalized(tbl, n) ==
    LET hits == {i \in 1..Len(tbl) : tbl[i].phone_normalized = n}
    IN  IF hits = {} THEN <<>>
        ELSE <<tbl[CHOOSE i \in hits : \A j \in hits : i <= j]>>

\* variant: a lookup on the phone as submitted, not on its normalized form
GetUserByRawPhone(tbl, phone) ==
    LET hits == {i \in 1..Len(tbl) : tbl[i].phone_number = phone}
    IN  IF hits = {} THEN <<>>
        ELSE <<tbl[CHOOSE i \in hits : \A j \in hits : i <= j]>>

\* get_user_by_phone: <<row>> or <<>> for None
GetUserByPhone(tbl, phone) ==
    LET n == NormalizePhone(phone)
    IN  IF ~n.ok THEN <<>> ELSE SelectByNormalized(tbl, n.value)

\* variant: a gate on registration alone
IsUserOptedInAny(tbl, phone) == Len(GetUserByPhone(tbl, phone)) > 0

\* is_user_opted_in: user and user.get('opted_in', False)
IsUserOptedIn(tbl, phone) ==
    LET user == GetUserByPhone(tbl, phone)
    IN  Len(user) > 0 /\ user[1].opted_in

\* is_user_registered
IsUserRegistered(tbl, phone) == Len(GetUserByPhone(tbl, phone)) > 0

\* variant: a row count of the rows whose value changes
RowCountChanged(tbl, n, v) ==
    Cardinality({i \in 1..Len(tbl) :
                    tbl[i].phone_normalized = n /\ tbl[i].opted_in # v})

\* cursor.rowcount of the UPDATE: the rows matched by the WHERE clause
RowCount(tbl, n, v) ==
    Cardinality({i \in 1..Len(tbl) : tbl[i].phone_normalized = n})

\* variant: an update that is not written
UpdateRowsLost(tbl, n, v) == tbl

\* variant: an update that inserts the row it does not find
UpdateRowsUpsert(tbl, n, v) ==
    IF \E i \in 1..Len(tbl) : tbl[i].phone_normalized = n
    THEN [i \in 1..Len(tbl) |->
             IF tbl[i].phone_normalized = n
             THEN [tbl[i] EXCEPT !.opted_in = v] ELSE tbl[i]]
    ELSE Append(tbl, [id |-> Len(tbl) + 1, full_name |-> "", call_sign |-> "",
                      phone_number |-> n, phone_normalized |-> n,
                      opted_in |-> v, registration_date |-> now,
                      last_updated |-> now])

\* variant: an UPDATE without its WHERE clause
UpdateRowsAll(tbl, n, v) ==
    [i \in 1..Len(tbl) |->
        [tbl[i] EXCEPT !.opted_in = v, !.last_updated = now]]

\* variant: an opt-out that deletes the row
UpdateRowsDelete(tbl, n, v) ==
    IF v
    THEN [i \in 1..Len(tbl) |->
             IF tbl[i].phone_normalized = n
             THEN [tbl[i] EXCEPT !.opted_in = v, !.last_updated = now]
             ELSE tbl[i]]
    ELSE SelectSeq(tbl, LAMBDA row : row.phone_normalized # n)

\* UPDATE registrations SET opted_in = ?, last_updated = CURRENT_TIMESTAMP
\* WHERE phone_normalized = ?
UpdateRows(tbl, n, v) ==
    [i \in 1..Len(tbl) |->
        IF tbl[i].phone_normalized = n
        THEN [tbl[i] EXCEPT !.opted_in = v, !.last_updated = now]
        ELSE tbl[i]]

\* variant: a phone that does not normalize counts as updated
UpdateOptInStatusUnchecked(tbl, phone, v) ==
    LET n == NormalizePhone(phone)
    IN  [table |-> UpdateRows(tbl, n.value, v),
         success |-> ~n.ok \/ RowCount(tbl, n.value, v) > 0]

\* update_opt_in_status: the new table and the returned bool
UpdateOptInStatus(tbl, phone, v) ==
    LET n == NormalizePhone(phone)
    IN  IF ~n.ok THEN [table |-> tbl, success |-> FALSE]
        ELSE [table |-> UpdateRows(tbl, n.value, v),
              success |-> RowCount(tbl, n.value, v) > 0]

\* variant: a schema without the UNIQUE constraints
UniqueOkNone(tbl, raw, n) == TRUE

\* the UNIQUE constraints of the schema (lines 42-43) accept the new row

UniqueOk(tbl, raw, n) ==
    \A i \in 1..Len(tbl) :
        tbl[i].phone_number # raw /\ tbl[i].phone_normalized # n

\* INSERT INTO registrations ... ; id INTEGER PRIMARY KEY AUTOINCREMENT
InsertRow(tbl, name, sign, raw, n, opt) ==
    Append(tbl, [id |-> Len(tbl) + 1, full_name |-> name, call_sign |-> sign,
                 phone_number |-> raw, phone_normalized |-> n,
                 opted_in |-> opt, registration_date |-> now,
                 last_updated |-> now])

\* the normalized phones that have a registration
RegisteredPhones(tbl) == {tbl[i].phone_normalized : i \in 1..Len(tbl)}

\* variant: a phone that does not normalize is stored as it was given
RegisterUserUnchecked(tbl, name, sign, raw, opt) ==
    IF Len(GetUserByPhone(tbl, raw)) > 0
    THEN [table |-> tbl, ok |-> FALSE,
          error |-> "Phone number already registered"]
    ELSE [table |-> InsertRow(tbl, name, sign, raw, raw, opt),
          ok |-> TRUE, error |-> ""]

\* register_user called by one caller at a time: normalize, look up, insert.
\* ok = FALSE with error stands for the exception raised.
RegisterUser(tbl, name, sign, raw, opt) ==
    LET n == NormalizePhone(raw)
    IN  IF ~n.ok
        THEN [table |-> tbl, ok |-> FALSE, error |-> n.error]
        ELSE IF Len(GetUserByPhone(tbl, n.value)) > 0
        THEN [table |-> tbl, ok |-> FALSE,
              error |-> "Phone number already registered"]
        ELSE IF ~UniqueOk(tbl, raw, n.value)
        THEN [table |-> tbl, ok |-> FALSE, error |-> "IntegrityError"]
        ELSE [table |-> InsertRow(tbl, name, sign, raw, n.value, opt),
              ok |-> TRUE, error |-> ""]

\* the orders in which rows can be returned
RowOrders(rows) ==
    LET n == Len(rows)
    IN  {[i \in 1..n |-> rows[f[i]]] :
            f \in {g \in [1..n -> 1..n] :
                      \A i, j \in 1..n : i # j => g[i] # g[j]}}

\* ORDER BY registration_date DESC: the rows by descending timestamp; SQL
\* leaves the order of rows of one timestamp open, so every such order is a
\* possible result
OrderByRegistrationDateDesc(rows) ==
    {out \in RowOrders(rows) :
        \A i, j \in 1..Len(out) :
            i < j => out[i].registration_date >= out[j].registration_date}

\* get_all_registrations: the possible results
GetAllRegistrations(tbl) == OrderByRegistrationDateDesc(tbl)

\* the row is selected by WHERE opted_in = 1
OptedInRow(row) == row.opted_in

\* get_opted_in_users: the possible results
GetOptedInUsers(tbl) ==
    OrderByRegistrationDateDesc(SelectSeq(tbl, OptedInRow))

(***************************************************************************)
(* Reply texts of the SMS handler (sms_service.py) and of Config.          *)
(***************************************************************************)
MsgNoBody == <<"No message body received">>

MsgUnregistered ==
    <<"You have been unregistered from SMS service. You will no longer receive messages. Reply START to re-register.">>

MsgNotRegisteredNoAction ==
    <<"You are not currently registered. No action needed.">>

MsgUnavailable ==
    <<"Service temporarily unavailable. Please try again later.">>

MsgRegistered ==
    <<"You have been registered for SMS service. Send a ham radio propagation query to get started!">>

MsgRegisterFirst ==
    <<"You need to complete registration first. Please visit www.hampuff.com/register to register with your name and call sign.">>

MsgHelp ==
    <<"HamPuff SMS Commands:\n\nPROPAGATION:\n* prop [TIMEZONE] - Get solar propagation data\n* propagation [TIMEZONE] - Same as above\n* hampuffe - Legacy (Eastern time)\n* hampuffp - Legacy (Pacific time)\n\nREGISTRATION:\n* START or REGISTER - Opt-in to SMS service\n* STOP or UNREGISTER - Opt-out from SMS service\n\nSUPPORTED TIMEZONES:\nUS Continental: EST, EDT, CST, CDT, MST, MDT, PST, PDT\nAlaska: AKST, AKDT\nHawaii: HST\nPuerto Rico: AST\nGuam: ChST, GST\nUniversal: UTC, GMT\n\nEXAMPLES:\n* prop EST\n* propagation PDT\n* prop HST\n\nHELP:\n* HELP or ? - Show this message">>

MsgRefusal ==
    <<"You are not registered for SMS service. Please visit www.hampuff.com/register to opt-in.">>

MsgError == <<"Sorry, an error occurred processing your request.">>

MsgRetortA == <<"Go fuck yourself, too">>

MsgRetortB == <<"Go shit your pants">>

MsgAirpuff ==
    <<"Wrong number. That might be an airport so please text Airpuff at sms://+1-802-247-7833 / [802-AIR-PUFF]">>

MsgDefault == <<"Wrong number. Please waste someone else's time.">>

MsgConsent == "Your SMS request provides consent to send the reply."

MsgLegacyApology == <<"Sorry, unable to retrieve hampuff data at this time.">>

\* variant: the apology of a failed prop command is the plain one
MsgPropApologyPlain(tz_code) ==
    <<"Sorry, unable to retrieve hampuff data at this time.">>

\* the apology of a failed prop command names the requested zone
MsgPropApology(tz_code) ==
    <<"Sorry, unable to retrieve hampuff data for timezone ">> \o tz_code \o
    <<". Supported timezones: EST, EDT, CST, CDT, MST, MDT, PST, PDT, AKST, AKDT, HST, AST, ChST, GST, UTC, GMT.">>

(***************************************************************************)
(* Command words and the timezone vocabulary.                              *)
(***************************************************************************)
WordStop == <<"s", "t", "o", "p">>

WordUnregister == <<"u", "n", "r", "e", "g", "i", "s", "t", "e", "r">>

WordStart == <<"s", "t", "a", "r", "t">>

WordRegister == <<"r", "e", "g", "i", "s", "t", "e", "r">>

WordHelp == <<"h", "e", "l", "p">>

WordQuestion == <<"?">>

WordProp == <<"p", "r", "o", "p">>

WordPropagation == <<"p", "r", "o", "p", "a", "g", "a", "t", "i", "o", "n">>

WordHampuff == <<"h", "a", "m", "p", "u", "f", "f">>

TokenA == <<"f", "u", "c", "k">>

TokenB == <<"s", "h", "i", "t">>

\* valid_timezones of _parse_propagation_command
ValidTimezones ==
    { <<"E", "S", "T">>,
      <<"E", "D", "T">>,
      <<"C", "S", "T">>,
      <<"C", "D", "T">>,
      <<"M", "S", "T">>,
      <<"M", "D", "T">>,
      <<"P", "S", "T">>,
      <<"P", "D", "T">>,
      <<"A", "K", "S", "T">>,
      <<"A", "K", "D", "T">>,
      <<"H", "S", "T">>,
      <<"A", "S", "T">>,
      <<"C", "h", "S", "T">>,
      <<"G", "S", "T">>,
      <<"U", "T", "C">>,
      <<"G", "M", "T">> }

(***************************************************************************)
(* HampuffDataProvider (hampuff_lib.py): timezone resolution, the legacy   *)
(* argument check and the formatting of a fetched record.                  *)
(***************************************************************************)
\* TIMEZONE_MAP: code -> pytz zone
TimezoneMap ==
    { <<<<"E", "S", "T">>, "US/Eastern">>,
      <<<<"E", "D", "T">>, "US/Eastern">>,
      <<<<"C", "S", "T">>, "US/Central">>,
      <<<<"C", "D", "T">>, "US/Central">>,
      <<<<"M", "S", "T">>, "US/Mountain">>,
      <<<<"M", "D", "T">>, "US/Mountain">>,
      <<<<"P", "S", "T">>, "US/Pacific">>,
      <<<<"P", "D", "T">>, "US/Pacific">>,
      <<<<"A", "K", "S", "T">>, "US/Alaska">>,
      <<<<"A", "K", "D", "T">>, "US/Alaska">>,
      <<<<"H", "S", "T">>, "US/Hawaii">>,
      <<<<"A", "S", "T">>, "America/Puerto_Rico">>,
      <<<<"C", "h", "S", "T">>, "Pacific/Guam">>,
      <<<<"G", "S", "T">>, "Pacific/Guam">>,
      <<<<"U", "T", "C">>, "UTC">>,
      <<<<"G", "M", "T">>, "UTC">> }

\* variant: the exact code alone
TimezoneFromCodeExact(code) ==
    IF \E e \in TimezoneMap : e[1] = code
    THEN <<(CHOOSE e \in TimezoneMap : e[1] = code)[2]>>
    ELSE <<>>

\* _get_timezone_from_code: <<zone>> or <<>> for ValueError;
\* the exact code first, then the upper-cased code against the upper-cased keys
TimezoneFromCode(code) ==
    IF \E e \in TimezoneMap : e[1] = code
    THEN <<(CHOOSE e \in TimezoneMap : e[1] = code)[2]>>
    ELSE IF \E e \in TimezoneMap : Upper(e[1]) = Upper(code)
    THEN <<(CHOOSE e \in TimezoneMap : Upper(e[1]) = Upper(code))[2]>>
    ELSE <<>>

\* variant: any eighth character is taken, Eastern unless it is p
LegacyTimezoneAny(args) ==
    IF Len(args) # 8 THEN <<>>
    ELSE IF ~StartsWith(Lower(args), WordHampuff) THEN <<>>
    ELSE IF ToLowerChar(args[8]) = "p" THEN <<"US/Pacific">>
    ELSE <<"US/Eastern">>

\* Variant: the validation without the two .lower() calls of lines 149-150
LegacyTimezoneCased(args) ==
    IF Len(args) # 8 THEN <<>>
    ELSE IF ~StartsWith(args, WordHampuff) THEN <<>>
    ELSE IF args[8] = "e" THEN <<"US/Eastern">>
    ELSE IF args[8] = "p" THEN <<"US/Pacific">>
    ELSE <<>>

\* _validate_hampuff_args and _get_timezone: <<zone>> or <<>> for ValueError
LegacyTimezone(args) ==
    IF Len(args) # 8 THEN <<>>
    ELSE IF ~StartsWith(Lower(args), WordHampuff) THEN <<>>
    ELSE IF ToLowerChar(args[8]) = "e" THEN <<"US/Eastern">>
    ELSE IF ToLowerChar(args[8]) = "p" THEN <<"US/Pacific">>
    ELSE <<>>

\* str(timezone).split('/')[-1]
ZoneDisplayName(zone) ==
    CASE zone = "US/Eastern" -> "Eastern"
      [] zone = "US/Central" -> "Central"
      [] zone = "US/Mountain" -> "Mountain"
      [] zone = "US/Pacific" -> "Pacific"
      [] zone = "US/Alaska" -> "Alaska"
      [] zone = "US/Hawaii" -> "Hawaii"
      [] zone = "America/Puerto_Rico" -> "Puerto_Rico"
      [] zone = "Pacific/Guam" -> "Guam"
      [] OTHER -> zone

(***************************************************************************)
(* The calendar of datetime, for _parse_update_time: strptime with the     *)
(* format '%d %b %Y %H%M %Z', astimezone and strftime '%a %d %b %H:%M'.    *)
(* The zone rules are those pytz holds for the years 2007 to 2037.         *)
(***************************************************************************)
DigitSeq == <<"0", "1", "2", "3", "4", "5", "6", "7", "8", "9">>

DigitValue(c) == (CHOOSE i \in 1..10 : DigitSeq[i] = c) - 1

IsNumber(s) == Len(s) > 0 /\ \A i \in 1..Len(s) : s[i] \in Digits

RECURSIVE ToNumber(_)
ToNumber(s) ==
    IF Len(s) = 0 THEN 0
    ELSE 10 * ToNumber(SubSeq(s, 1, Len(s) - 1)) + DigitValue(s[Len(s)])

\* %b when printing, and when parsing (case-insensitive)
MonthNames ==
    <<"Jan", "Feb", "Mar", "Apr", "May", "Jun",
      "Jul", "Aug", "Sep", "Oct", "Nov", "Dec">>

MonthAbbrevs ==
    << <<"j", "a", "n">>, <<"f", "e", "b">>, <<"m", "a", "r">>,
       <<"a", "p", "r">>, <<"m", "a", "y">>, <<"j", "u", "n">>,
       <<"j", "u", "l">>, <<"a", "u", "g">>, <<"s", "e", "p">>,
       <<"o", "c", "t">>, <<"n", "o", "v">>, <<"d", "e", "c">> >>

\* %a, Monday first as date.weekday() counts
DayNames == <<"Mon", "Tue", "Wed", "Thu", "Fri", "Sat", "Sun">>

\* %Z accepts utc, gmt and the names of the server's own zone (UTC)
ZoneNames == {<<"u", "t", "c">>, <<"g", "m", "t">>}

IsLeap(y) == (y % 4 = 0 /\ y % 100 # 0) \/ y % 400 = 0

DaysInMonth(y, m) ==
    IF m = 2 THEN (IF IsLeap(y) THEN 29 ELSE 28)
    ELSE IF m \in {4, 6, 9, 11} THEN 30
    ELSE 31

RECURSIVE DaysBeforeMonth(_, _)
DaysBeforeMonth(y, m) ==
    IF m = 1 THEN 0 ELSE DaysBeforeMonth(y, m - 1) + DaysInMonth(y, m - 1)

\* date.toordinal(): 1 for 1 Jan of year 1
Ordinal(y, m, d) ==
    365 * (y - 1) + ((y - 1) \div 4) - ((y - 1) \div 100) + ((y - 1) \div 400)
    + DaysBeforeMonth(y, m) + d

\* date.weekday(): 0 for Monday
Weekday(y, m, d) == (Ordinal(y, m, d) + 6) % 7

\* the time of day of %H%M: the regular expressions of strptime take two
\* digits for the hour where they can, the rest is the minute
ParseHourMinute(t) ==
    LET two(x, top) == Len(x) = 2 /\ ToNumber(x) <= top
        n == Len(t)
    IN  IF ~IsNumber(t) \/ n < 2 \/ n > 4 THEN <<>>
        ELSE IF n = 4
        THEN IF two(SubSeq(t, 1, 2), 23) /\ two(SubSeq(t, 3, 4), 59)
             THEN <<ToNumber(SubSeq(t, 1, 2)), ToNumber(SubSeq(t, 3, 4))>>
             ELSE <<>>
        ELSE IF n = 3
        THEN IF two(SubSeq(t, 1, 2), 23)
             THEN <<ToNumber(SubSeq(t, 1, 2)), ToNumber(SubSeq(t, 3, 3))>>
             ELSE IF two(SubSeq(t, 2, 3), 59)
             THEN <<ToNumber(SubSeq(t, 1, 1)), ToNumber(SubSeq(t, 2, 3))>>
             ELSE <<>>
        ELSE <<ToNumber(SubSeq(t, 1, 1)), ToNumber(SubSeq(t, 2, 2))>>

\* datetime.strptime(update_str, '%d %b %Y %H%M %Z'): the fields, or
\* ok = FALSE for ValueError; the zone name is matched and dropped
StrpTime(update_str) ==
    LET parts == Split(update_str)
        bad == [ok |-> FALSE, year |-> 0, month |-> 0, day |-> 0,
                hour |-> 0, minute |-> 0]
    IN  IF Len(parts) # 5 THEN bad
        ELSE IF update_str[1] \in Whitespace
                \/ update_str[Len(update_str)] \in Whitespace THEN bad
        ELSE IF ~IsNumber(parts[1]) \/ Len(parts[1]) > 2 THEN bad
        ELSE IF ToNumber(parts[1]) < 1 \/ ToNumber(parts[1]) > 31 THEN bad
        ELSE IF ~\E m \in 1..12 : MonthAbbrevs[m] = Lower(parts[2]) THEN bad
        ELSE IF ~IsNumber(parts[3]) \/ Len(parts[3]) # 4 THEN bad
        ELSE IF ToNumber(parts[3]) < 1 THEN bad
        ELSE IF Len(ParseHourMinute(parts[4])) = 0 THEN bad
        ELSE IF Lower(parts[5]) \notin ZoneNames THEN bad
        ELSE LET y == ToNumber(parts[3])
                 m == CHOOSE k \in 1..12 : MonthAbbrevs[k] = Lower(parts[2])
                 d == ToNumber(parts[1])
                 hm == ParseHourMinute(parts[4])
             IN  IF d > DaysInMonth(y, m) THEN bad
                 ELSE [ok |-> TRUE, year |-> y, month |-> m, day |-> d,
                       hour |-> hm[1], minute |-> hm[2]]

\* the day before and the day after
PrevDay(t) ==
    IF t.day > 1 THEN [t EXCEPT !.day = t.day - 1]
    ELSE IF t.month > 1
    THEN [t EXCEPT !.month = t.month - 1,
                   !.day = DaysInMonth(t.year, t.month - 1)]
    ELSE [t EXCEPT !.year = t.year - 1, !.month = 12, !.day = 31]

NextDay(t) ==
    IF t.day < DaysInMonth(t.year, t.month) THEN [t EXCEPT !.day = t.day + 1]
    ELSE IF t.month < 12 THEN [t EXCEPT !.month = t.month + 1, !.day = 1]
    ELSE [t EXCEPT !.year = t.year + 1, !.month = 1, !.day = 1]

\* t moved by delta minutes, less than a day either way
ShiftMinutes(t, delta) ==
    LET total == t.hour * 60 + t.minute + delta
        at(u, mins) == [u EXCEPT !.hour = mins \div 60, !.minute = mins % 60]
    IN  IF total < 0 THEN at(PrevDay(t), total + 1440)
        ELSE IF total >= 1440 THEN at(NextDay(t), total - 1440)
        ELSE at(t, total)

\* minutes east of UTC in standard time
StandardOffset(zone) ==
    CASE zone = "US/Eastern" -> -300
      [] zone = "US/Central" -> -360
      [] zone = "US/Mountain" -> -420
      [] zone = "US/Pacific" -> -480
      [] zone = "US/Alaska" -> -540
      [] zone = "US/Hawaii" -> -600
      [] zone = "America/Puerto_Rico" -> -240
      [] zone = "Pacific/Guam" -> 600
      [] OTHER -> 0

ObservesDst(zone) ==
    zone \in {"US/Eastern", "US/Central", "US/Mountain", "US/Pacific",
              "US/Alaska"}

FirstSunday(y, m) == 1 + ((6 - Weekday(y, m, 1)) % 7)

\* daylight time runs from 02:00 standard time of the second Sunday of
\* March to 01:00 standard time of the first Sunday of November
IsDst(zone, utc) ==
    LET s == ShiftMinutes(utc, StandardOffset(zone))
        mins == s.hour * 60 + s.minute
        from(m, d, at) ==
            \/ s.month > m
            \/ s.month = m /\ s.day > d
            \/ s.month = m /\ s.day = d /\ mins >= at
    IN  /\ ObservesDst(zone)
        /\ from(3, FirstSunday(s.year, 3) + 7, 120)
        /\ ~from(11, FirstSunday(s.year, 11), 60)

\* variant: the time is left in UTC
AsTimezoneUtc(utc, zone) == utc

\* utc_time.astimezone(timezone)
AsTimezone(utc, zone) ==
    ShiftMinutes(utc, StandardOffset(zone)
                      + (IF IsDst(zone, utc) THEN 60 ELSE 0))

TwoDigits(n) == <<DigitSeq[(n \div 10) + 1], DigitSeq[(n % 10) + 1]>>

\* local_time.strftime('%a %d %b %H:%M')
StrfTime(t) ==
    <<DayNames[Weekday(t.year, t.month, t.day) + 1], " ">> \o
    TwoDigits(t.day) \o <<" ", MonthNames[t.month], " ">> \o
    TwoDigits(t.hour) \o <<":">> \o TwoDigits(t.minute)

\* Python's None: the value xmltodict gives an element that has no text
None == <<"None">>

InvalidUpdateTime ==
    <<"Invalid update time format: ", "time data does not match format '%d %b %Y %H%M %Z'">>

\* _parse_update_time: the text of the update time in the zone, or
\* ok = FALSE with the class and the text of the exception.  strptime raises
\* ValueError for a text that is no time, which the except clause wraps, and
\* TypeError for a value that is no text; astimezone raises OverflowError
\* when the local time leaves the years 1..9999; the last two are not caught.
FormatLocalTime(local_time) ==
    IF local_time.year < 1 \/ local_time.year > 9999
    THEN [ok |-> FALSE, error |-> "OverflowError",
          text |-> <<"date value out of range">>]
    ELSE [ok |-> TRUE, error |-> "", text |-> StrfTime(local_time)]

ConvertUpdateTime(utc_time, zone) ==
    IF ~utc_time.ok
    THEN [ok |-> FALSE, error |-> "ValueError", text |-> InvalidUpdateTime]
    ELSE FormatLocalTime(AsTimezone(utc_time, zone))

ParseUpdateTime(update_str, zone) ==
    IF update_str = None
    THEN [ok |-> FALSE, error |-> "TypeError",
          text |-> <<"strptime() argument 1 must be str, not None">>]
    ELSE ConvertUpdateTime(StrpTime(update_str), zone)

(***************************************************************************)
(* The solar feed and the formatting of its record.                        *)
(***************************************************************************)
\* records of the feed (solar['solardata']): complete ones, one without a
\* solarflux element, one without the updated element, one whose updated
\* text is no time
SampleSolarData ==
    [updated |-> <<"0", "5", " ", "N", "o", "v", " ", "2", "0", "2", "6", " ", "1", "2", "0", "0", " ", "G", "M", "T">>,
     solarflux |-> "150", aindex |-> "8", kindex |-> "2", sunspots |-> "97",
     muf |-> "21.3", xray |-> "B4.2", solarwind |-> "412.5"]

SummerSolarData ==
    [updated |-> <<"0", "1", " ", "J", "u", "l", " ", "2", "0", "2", "6", " ", "0", "2", "3", "0", " ", "G", "M", "T">>,
     solarflux |-> "131", aindex |-> "12", kindex |-> "3", sunspots |-> "64",
     muf |-> "18.75", xray |-> "C1.1", solarwind |-> "388.0"]

NoFluxSolarData ==
    [updated |-> <<"0", "8", " ", "M", "a", "r", " ", "2", "0", "2", "6", " ", "0", "7", "0", "0", " ", "G", "M", "T">>,
     aindex |-> "5", kindex |-> "1", sunspots |-> "40",
     muf |-> "NoRpt", xray |-> "A9.9", solarwind |-> "301.2"]

NoUpdateSolarData ==
    [solarflux |-> "150", aindex |-> "8", kindex |-> "2", sunspots |-> "97",
     muf |-> "21.3", xray |-> "B4.2", solarwind |-> "412.5"]

BadTimeSolarData ==
    [updated |-> <<"0", "5", " ", "N", "o", "v", " ", "2", "0", "2", "6", " ", "2", "4", "0", "0", " ", "G", "M", "T">>,
     solarflux |-> "150", aindex |-> "8", kindex |-> "2", sunspots |-> "97",
     muf |-> "21.3", xray |-> "B4.2", solarwind |-> "412.5"]

SolarRecords ==
    {SampleSolarData, SummerSolarData, NoFluxSolarData, NoUpdateSolarData,
     BadTimeSolarData}

\* records of a feed out of order: the updated element is there and has no
\* text, and the updated text is a time of the first hours of year 1
EmptyUpdateSolarData ==
    [updated |-> None,
     solarflux |-> "150", aindex |-> "8", kindex |-> "2", sunspots |-> "97",
     muf |-> "21.3", xray |-> "B4.2", solarwind |-> "412.5"]

FirstYearSolarData ==
    [updated |-> <<"0", "1", " ", "J", "a", "n", " ", "0", "0", "0", "1", " ", "0", "0", "0", "0", " ", "G", "M", "T">>,
     solarflux |-> "150", aindex |-> "8", kindex |-> "2", sunspots |-> "97",
     muf |-> "21.3", xray |-> "B4.2", solarwind |-> "412.5"]

OddSolarRecords == {EmptyUpdateSolarData, FirstYearSolarData}

\* what _fetch_solar_data ends with: a record, or ValueError with the text
\* of the request's or the parser's exception
FetchError ==
    <<"Failed to fetch solar data: ", "HTTPConnectionPool(host='www.hamqsl.com', port=80): Read timed out.">>

FetchOutcomes ==
    {[ok |-> TRUE, data |-> d, error |-> <<>>] : d \in SolarRecords}
    \cup {[ok |-> FALSE, data |-> <<>>, error |-> FetchError]}

\* solar_data.get(name, 'N/A')
FieldOrNA(solar_data, name) ==
    IF name \in DOMAIN solar_data THEN solar_data[name] ELSE "N/A"

MissingUpdated == <<"Solar data is incomplete: missing ", "'updated'">>

\* _format_hampuff_response: the text, or ok = FALSE with the class and the
\* text of the exception: KeyError of the missing field is turned into
\* ValueError, what _parse_update_time raises passes through
\* lines 198-212: the block under the header with the update time
HampuffBlock(solar_data, zone, update_time) ==
    IF ~update_time.ok
    THEN update_time
    ELSE [ok |-> TRUE, error |-> "",
          text |->
            <<"[Hampuff - ", ZoneDisplayName(zone), "] Updated: ">>
            \o update_time.text \o
            <<"\n\tSolar Flux  = ", FieldOrNA(solar_data, "solarflux"),
              "\n\tA Index     = ", FieldOrNA(solar_data, "aindex"),
              "\n\tK Index     = ", FieldOrNA(solar_data, "kindex"),
              "\n\tSunspot #   = ", FieldOrNA(solar_data, "sunspots"),
              "\n\tMUF         = ", FieldOrNA(solar_data, "muf"),
              "\n\tXRay        = ", FieldOrNA(solar_data, "xray"),
              "\n\tSolar Winds = ", FieldOrNA(solar_data, "solarwind")>>]

FormatHampuffResponse(solar_data, zone) ==
    IF "updated" \notin DOMAIN solar_data
    THEN [ok |-> FALSE, error |-> "ValueError", text |-> MissingUpdated]
    ELSE HampuffBlock(solar_data, zone,
                      ParseUpdateTime(solar_data.updated, zone))

\* variant: a record kept from an earlier fetch is formatted
ProviderResultKept(outcome, zone) ==
    IF outcome.ok THEN FormatHampuffResponse(SampleSolarData, zone)
    ELSE [ok |-> FALSE, error |-> "ValueError", text |-> outcome.error]

\* get_hampuff_data_for_timezone and get_hampuff_data once the zone is
\* resolved: fetch, then format; either may raise
ProviderResult(outcome, zone) ==
    IF outcome.ok THEN FormatHampuffResponse(outcome.data, zone)
    ELSE [ok |-> FALSE, error |-> "ValueError", text |-> outcome.error]

(***************************************************************************)
(* CommandClassifier: SMSHandler.handle_sms_request and _generate_response *)
(***************************************************************************)
\* _parse_propagation_command: <<tz_code>> or <<>> for None
ParsePropagationCommand(body_lower) ==
    LET parts == Split(body_lower)
    IN  IF Len(parts) < 2 THEN <<>>
        ELSE IF parts[1] \notin {WordProp, WordPropagation} THEN <<>>
        ELSE IF Upper(parts[2]) \in ValidTimezones THEN <<Upper(parts[2])>>
        ELSE <<>>

\* the if-chain of handle_sms_request on the case-folded body (lines 47-98):
\* which branch takes the message
\* variant: help is tested after the gate
BranchHelpGated(body_lower) ==
    IF body_lower \in {WordStop, WordUnregister} THEN "stop"
    ELSE IF body_lower \in {WordStart, WordRegister} THEN "start"
    ELSE "gate"

Branch(body_lower) ==
    IF body_lower \in {WordStop, WordUnregister} THEN "stop"
    ELSE IF body_lower \in {WordStart, WordRegister} THEN "start"
    ELSE IF body_lower \in {WordHelp, WordQuestion} THEN "help"
    ELSE "gate"

\* The content rules as a list of matchers, the first that matches answers.
\* a rule by its name: does it take the message
RuleMatches(rule, body, body_lower) ==
    CASE rule = "tokenA" -> Contains(TokenA, body_lower)
      [] rule = "tokenB" -> Contains(TokenB, body_lower)
      [] rule = "length4" -> Len(body_lower) = 4
      [] rule = "prop" ->
            LET parts == Split(body_lower)
            IN  /\ Len(parts) >= 2
                /\ parts[1] \in {WordProp, WordPropagation}
                /\ Upper(parts[2]) \in ValidTimezones
      [] rule = "hampuff" -> Contains(WordHampuff, body_lower)

\* a rule by its name: its fixed reply, or the fetch for a zone with the
\* apology of a failure
RuleOutcome(rule, body, body_lower) ==
    CASE rule = "tokenA" -> [fetch |-> FALSE, text |-> MsgRetortA, zone |-> ""]
      [] rule = "tokenB" -> [fetch |-> FALSE, text |-> MsgRetortB, zone |-> ""]
      [] rule = "length4" -> [fetch |-> FALSE, text |-> MsgAirpuff, zone |-> ""]
      [] rule = "prop" ->
            LET code == Upper(Split(body_lower)[2])
            IN  [fetch |-> TRUE, text |-> MsgPropApology(code),
                 zone |-> (CHOOSE e \in TimezoneMap : e[1] = code)[2]]
      [] rule = "hampuff" ->
            IF Len(body) = 8 /\ SubSeq(body_lower, 1, 7) = WordHampuff
               /\ body_lower[8] \in {"e", "p"}
            THEN [fetch |-> TRUE, text |-> MsgLegacyApology,
                  zone |-> IF body_lower[8] = "e" THEN "US/Eastern"
                           ELSE "US/Pacific"]
            ELSE [fetch |-> FALSE, text |-> MsgLegacyApology, zone |-> ""]

RECURSIVE FirstMatch(_, _, _)
FirstMatch(rules, body, body_lower) ==
    IF Len(rules) = 0 THEN [fetch |-> FALSE, text |-> MsgDefault, zone |-> ""]
    ELSE IF RuleMatches(Head(rules), body, body_lower)
    THEN RuleOutcome(Head(rules), body, body_lower)
    ELSE FirstMatch(Tail(rules), body, body_lower)

\* the order of the rules
ContentRules == <<"tokenA", "tokenB", "length4", "prop", "hampuff">>

\* variant: the length rule is tested first
GenerateResponseLengthFirst(body, body_lower) ==
    FirstMatch(<<"length4", "tokenA", "tokenB", "prop", "hampuff">>,
               body, body_lower)

\* variant: there is no length rule
GenerateResponseNoLength(body, body_lower) ==
    FirstMatch(<<"tokenA", "tokenB", "prop", "hampuff">>, body, body_lower)

\* variant: there is no legacy rule
GenerateResponseNoLegacy(body, body_lower) ==
    FirstMatch(<<"tokenA", "tokenB", "length4", "prop">>, body, body_lower)

\* _generate_response up to the fetch: a fixed reply, or a fetch for a zone
\* with the apology that a failure turns into
GenerateResponse(body, body_lower) ==
    LET prop == ParsePropagationCommand(body_lower)
        legacy == LegacyTimezone(body)
    IN  IF Contains(TokenA, body_lower)
        THEN [fetch |-> FALSE, text |-> MsgRetortA, zone |-> ""]
        ELSE IF Contains(TokenB, body_lower)
        THEN [fetch |-> FALSE, text |-> MsgRetortB, zone |-> ""]
        ELSE IF Len(body_lower) = 4
        THEN [fetch |-> FALSE, text |-> MsgAirpuff, zone |-> ""]
        ELSE IF Len(prop) > 0
        THEN IF Len(TimezoneFromCode(prop[1])) > 0
             THEN [fetch |-> TRUE, text |-> MsgPropApology(prop[1]),
                   zone |-> TimezoneFromCode(prop[1])[1]]
             ELSE [fetch |-> FALSE, text |-> MsgPropApology(prop[1]), zone |-> ""]
        ELSE IF Contains(WordHampuff, body_lower)
        THEN IF Len(legacy) > 0
             THEN [fetch |-> TRUE, text |-> MsgLegacyApology, zone |-> legacy[1]]
             ELSE [fetch |-> FALSE, text |-> MsgLegacyApology, zone |-> ""]
        ELSE [fetch |-> FALSE, text |-> MsgDefault, zone |-> ""]

\* f"{hampuff_data}\n\n{CONSENT_MESSAGE}"
DataReply(solar_data, zone) ==
    FormatHampuffResponse(solar_data, zone).text \o <<"\n\n", MsgConsent>>

\* variant: the except clause answers with the text of the exception
FetchReplyRaw(plan, result) ==
    IF result.ok THEN result.text \o <<"\n\n", MsgConsent>>
    ELSE <<"Error: ">> \o result.text

\* the try / except around the provider call in _generate_response: the data
\* with the consent notice, or the apology of the branch
FetchReply(plan, result) ==
    IF result.ok THEN result.text \o <<"\n\n", MsgConsent>>
    ELSE plan.text

(***************************************************************************)
(* Inputs of the requests.                                                 *)
(***************************************************************************)
\* phone strings submitted to the registration and opt-in endpoints
PhoneA1 == <<"5", "5", "5", "1", "2", "3", "4", "5", "6", "7">>

PhoneA2 == <<"(", "5", "5", "5", ")", " ", "1", "2", "3", "-", "4", "5", "6", "7">>

PhoneB == <<"+", "1", "-", "5", "5", "5", "-", "9", "9", "9", "-", "9", "9", "9", "9">>

PhoneBad == <<"1", "2", "3", "4", "5">>

RegisterPhones == {PhoneA1, PhoneA2, PhoneB, PhoneBad}

\* the From numbers of inbound messages
SenderA == <<"+", "1", "5", "5", "5", "1", "2", "3", "4", "5", "6", "7">>

SenderB == <<"+", "1", "5", "5", "5", "9", "9", "9", "9", "9", "9", "9">>

Senders == {SenderA, SenderB}

\* the Body texts of inbound messages
Bodies ==
    { <<>>,
      <<"s", "t", "o", "p">>,
      <<" ", "U", "n", "R", "e", "g", "i", "s", "t", "e", "r", " ">>,
      <<"S", "T", "A", "R", "T">>,
      <<"r", "e", "g", "i", "s", "t", "e", "r">>,
      <<"h", "e", "l", "p">>,
      <<"?">>,
      <<"p", "r", "o", "p", " ", "E", "S", "T">>,
      <<"K", "J", "F", "K">>,
      <<"s", "h", "i", "t">>,
      <<"h", "e", "l", "l", "o">>,
      <<"h", "a", "m", "p", "u", "f", "f", "e">>,
      <<"h", "a", "m", "p", "u", "f", "f", "p">>,
      <<"h", "a", "m", "p", "u", "f", "f", "X">>,
      <<"h", "a", "m", "p", "u", "f", "f">>,
      <<"H", "a", "m", "p", "u", "f", "f", "E">>,
      <<"m", "y", " ", "h", "a", "m", "p", "u", "f", "f", "e">>,
      <<"p", "r", "o", "p">>,
      <<"p", "r", "o", "p", " ", "c", "h", "s", "t">>,
      <<"p", "r", "o", "p", "a", "g", "a", "t", "i", "o", "n", " ", "p", "d", "t">>,
      <<"p", "r", "o", "p", " ", "X", "Y", "Z">>,
      <<"F", "u", "c", "k", " ", "o", "f", "f">>,
      <<"o", "h", " ", "s", "h", "i", "t", " ", "f", "u", "c", "k">>,
      <<"P", "r", "o", "p", " ", "e", "s", "t", " ", "H", "a", "m", "p", "u", "f", "f">>,
      <<" ", " ">> }

(***************************************************************************)
(* State.                                                                  *)
(***************************************************************************)
VARIABLES
    table,      \* the registrations table: its rows in insertion order
    pc,         \* pc[p]: where request handler p stands
    req,        \* req[p]: the request p is handling
    reply,      \* reply[p]: the reply of p's request, once it is done
    nreq,       \* number of requests received so far
    seen,       \* history: what p's last store call found (see Saw)
    stopSince,  \* history: phones whose stop was answered with no opt-in since
    call,       \* the last direct call of a store or provider function
    latest      \* history: per canonical phone, the opt-in value last supplied
                \* by a successful direct register_user / update_opt_in_status

vars == <<table, pc, req, reply, nreq, seen, stopSince, now, call, latest>>

\* what the request handlers leave alone: they make no direct call, and the
\* clock is moved by Tick alone
callVars == <<now, call, latest>>

NoRequest ==
    [op |-> "none", method |-> "", body |-> <<>>, phone |-> <<>>,
     opted_in |-> FALSE, full_name |-> "", call_sign |-> "",
     timezone |-> <<>>]

\* POST /sms with Body and From
SmsRequests(bodies, senders) ==
    {[NoRequest EXCEPT !.op = "sms", !.body = b, !.phone = s] :
        b \in bodies, s \in senders}

\* POST /sms/api/v1/register with its JSON fields
RegisterRequests(phones) ==
    {[NoRequest EXCEPT !.op = "register", !.phone = ph, !.opted_in = o,
                       !.full_name = "John Doe", !.call_sign = "W1ABC"] :
        ph \in phones, o \in BOOLEAN}

\* POST /sms/api/v1/start/<phone> and /sms/api/v1/stop/<phone>
ApiRequests(phones) ==
    {[NoRequest EXCEPT !.op = o, !.phone = ph] :
        ph \in phones, o \in {"api_start", "api_stop"}}

\* history: no call of the feed yet
NoFetch == [ok |-> FALSE, data |-> <<>>, error |-> <<>>]

\* no direct call yet
NoCall ==
    [op |-> "none", arg |-> <<>>, flag |-> FALSE, sign |-> <<>>,
     data |-> <<>>, zone |-> "", ok |-> FALSE, error |-> "",
     result |-> <<>>, at |-> 0]

\* the canonical phones of the inputs
CanonPhones == {SenderA, SenderB}

Init ==
    /\ table = <<>>
    /\ pc = [p \in Procs |-> "idle"]
    /\ req = [p \in Procs |-> NoRequest]
    /\ reply = [p \in Procs |-> <<>>]
    /\ nreq = 0
    /\ seen = [p \in Procs |-> [status |-> "-", stopped |-> FALSE,
                              fetch |-> NoFetch]]
    /\ stopSince = {}
    /\ now = 0
    /\ call = NoCall
    /\ latest = [n \in CanonPhones |-> "none"]

\* handler p is the one that takes the next request: the workers are
\* interchangeable, the request goes to the first one that is not busy
Free(p) ==
    /\ nreq < MaxRequests
    /\ pc[p] \in {"idle", "done"}
    /\ \A q \in Procs : q < p => pc[q] \notin {"idle", "done"}

\* handler p receives request r.  The handler's work before its first store
\* call touches nothing shared, so it is one step with that call.
Take(p, r) ==
    /\ req' = [req EXCEPT ![p] = r]
    /\ nreq' = nreq + 1

\* handler p goes on with its request
Resume(p, at) ==
    /\ pc[p] = at
    /\ UNCHANGED <<req, nreq>>

\* history: "none", "in" or "out", the state of phone's registration in tbl
Status(tbl, phone) ==
    LET user == GetUserByPhone(tbl, phone)
    IN  IF Len(user) = 0 THEN "none"
        ELSE IF user[1].opted_in THEN "in" ELSE "out"

\* the canonical form of a phone, <<>> when it has none
Canon(phone) == NormalizePhone(phone).value

\* history: at this step of p on request r the registration of r's phone was
\* status ("none", "in", "out"; "-" when the step calls no store, "error"
\* when the call raises), and stopped tells whether the phone's stop had been
\* answered with no opt-in since
Saw(p, r, status) ==
    seen' = [seen EXCEPT ![p] = [status |-> status,
                                 stopped |-> Canon(r.phone) \in stopSince,
                                 fetch |-> NoFetch]]

\* the handler returns its reply
Finish(p, text) ==
    /\ pc' = [pc EXCEPT ![p] = "done"]
    /\ reply' = [reply EXCEPT ![p] = text]
    /\ UNCHANGED callVars

\* the handler goes on to its next store call
Goto(p, at) ==
    /\ pc' = [pc EXCEPT ![p] = at]
    /\ reply' = [reply EXCEPT ![p] = <<>>]
    /\ UNCHANGED callVars

\* body.strip().lower() of a request
BodyLower(r) == Lower(Strip(r.body))

(***************************************************************************)
(* POST /sms: SMSHandler.handle_sms_request.                               *)
(***************************************************************************)
\* lines 34-38: no body
SmsEmpty(p, inputs) ==
    /\ Free(p)
    /\ \E r \in inputs :
        /\ r.op = "sms" /\ Len(r.body) = 0
        /\ Take(p, r)
        /\ Finish(p, MsgNoBody)
        /\ Saw(p, r, "-")
        /\ UNCHANGED <<table, stopSince>>

\* lines 94-96: help / ?
SmsHelp(p, inputs) ==
    /\ Free(p)
    /\ \E r \in inputs :
        /\ r.op = "sms" /\ Len(r.body) > 0 /\ Branch(BodyLower(r)) = "help"
        /\ Take(p, r)
        /\ Finish(p, MsgHelp)
        /\ Saw(p, r, "-")
        /\ UNCHANGED <<table, stopSince>>

\* lines 47-61: stop / unregister
SmsStop(p, inputs) ==
    /\ Free(p)
    /\ \E r \in inputs :
        /\ r.op = "sms" /\ Len(r.body) > 0 /\ Branch(BodyLower(r)) = "stop"
        /\ Take(p, r)
        /\ LET u == UpdateOptInStatus(table, r.phone, FALSE)
           IN  /\ table' = u.table
               /\ IF u.success
                  THEN /\ Finish(p, MsgUnregistered)
                       /\ stopSince' = stopSince \cup {Canon(r.phone)}
                  ELSE /\ Finish(p, MsgNotRegisteredNoAction)
                       /\ UNCHANGED stopSince
        /\ Saw(p, r, Status(table, r.phone))

\* lines 69-73, 82-87: start / register looks the sender up
SmsStart(p, inputs) ==
    /\ Free(p)
    /\ \E r \in inputs :
        /\ r.op = "sms" /\ Len(r.body) > 0 /\ Branch(BodyLower(r)) = "start"
        /\ Take(p, r)
        /\ IF Len(GetUserByPhone(table, r.phone)) > 0
           THEN Goto(p, "sms_start_update")
           ELSE Finish(p, MsgRegisterFirst)
        /\ Saw(p, r, Status(table, r.phone))
        /\ UNCHANGED <<table, stopSince>>

\* lines 75-81: the sender exists and is opted in; when the update finds no
\* row the handler goes on to the help test (false here) and to the gate
SmsStartUpdate(p) ==
    /\ Resume(p, "sms_start_update")
    /\ LET u == UpdateOptInStatus(table, req[p].phone, TRUE)
       IN  /\ table' = u.table
           /\ IF u.success
              THEN /\ Finish(p, MsgRegistered)
                   /\ stopSince' = stopSince \ {Canon(req[p].phone)}
              ELSE /\ Goto(p, "sms_gate")
                   /\ UNCHANGED stopSince
    /\ Saw(p, req[p], Status(table, req[p].phone))

\* lines 98-115: the opt-in gate, then _generate_response up to the fetch
GateCheck(p, r) ==
    /\ LET body == Strip(r.body)
           plan == GenerateResponse(body, Lower(body))
       IN  IF ~IsUserOptedIn(table, r.phone)
           THEN Finish(p, MsgRefusal)
           ELSE IF plan.fetch
           THEN Goto(p, "sms_fetch")
           ELSE Finish(p, plan.text)
    /\ Saw(p, r, Status(table, r.phone))
    /\ UNCHANGED <<table, stopSince>>

\* the gate is reached by a message of no other branch, or from
\* SmsStartUpdate
SmsGate(p, inputs) ==
    IF pc[p] = "sms_gate"
    THEN Resume(p, "sms_gate") /\ GateCheck(p, req[p])
    ELSE /\ Free(p)
         /\ \E r \in inputs :
              /\ r.op = "sms" /\ Len(r.body) > 0 /\ Branch(BodyLower(r)) = "gate"
              /\ Take(p, r)
              /\ GateCheck(p, r)

\* Variant: a failed fetch sends the handler back to generate the reply
\* again instead of being answered
SmsFetchRetry(p) ==
    /\ Resume(p, "sms_fetch")
    /\ LET body == Strip(req[p].body)
           plan == GenerateResponse(body, Lower(body))
       IN  \E outcome \in FetchOutcomes :
              /\ IF outcome.ok
                 THEN Finish(p, FetchReply(plan,
                                           ProviderResult(outcome, plan.zone)))
                 ELSE Goto(p, "sms_gate")
              /\ seen' = [seen EXCEPT ![p].fetch = outcome]
    /\ UNCHANGED <<table, stopSince>>

\* the provider call of _generate_response: the feed answers with a record
\* or the request fails, the record is formatted or the formatting raises
SmsFetch(p) ==
    /\ Resume(p, "sms_fetch")
    /\ LET body == Strip(req[p].body)
           plan == GenerateResponse(body, Lower(body))
       IN  \E outcome \in FetchOutcomes :
              /\ Finish(p, FetchReply(plan, ProviderResult(outcome, plan.zone)))
              /\ seen' = [seen EXCEPT ![p].fetch = outcome]
    /\ UNCHANGED <<table, stopSince>>

(***************************************************************************)
(* POST /sms/api/v1/register: api_register calling register_user.          *)
(* A reply of the web layer is <<status, message>>.                        *)
(***************************************************************************)
\* register_user lines 121-126: normalize, then the lookup
RegisterCheck(p, inputs) ==
    /\ Free(p)
    /\ \E r \in inputs :
        /\ r.op = "register"
        /\ Take(p, r)
        /\ LET n == NormalizePhone(r.phone)
           IN  IF ~n.ok
               THEN Finish(p, <<"400", n.error>>)
               ELSE IF Len(GetUserByPhone(table, n.value)) > 0
               THEN Finish(p, <<"400", "Phone number already registered">>)
               ELSE Goto(p, "reg_insert")
        /\ Saw(p, r, Status(table, r.phone))
        /\ UNCHANGED <<table, stopSince>>

\* register_user lines 128-137: the INSERT; a UNIQUE violation raises
\* sqlite3.IntegrityError, which api_register answers with 500
RegisterInsert(p) ==
    /\ Resume(p, "reg_insert")
    /\ LET r == req[p]
           n == NormalizePhone(r.phone).value
       IN  IF UniqueOk(table, r.phone, n)
           THEN /\ table' = InsertRow(table, r.full_name, r.call_sign,
                                      r.phone, n, r.opted_in)
                /\ Finish(p, <<"201", "Registration successful">>)
           ELSE /\ Finish(p, <<"500", "Failed to process registration">>)
                /\ UNCHANGED table
    /\ Saw(p, req[p], Status(table, req[p].phone))
    /\ UNCHANGED stopSince

(***************************************************************************)
(* POST /sms/api/v1/start/<phone> and /stop/<phone>: api_start, api_stop.  *)
(***************************************************************************)
\* api_start lines 260-266
ApiStart(p, inputs) ==
    /\ Free(p)
    /\ \E r \in inputs :
        /\ r.op = "api_start"
        /\ Take(p, r)
        /\ IF Len(GetUserByPhone(table, r.phone)) = 0
           THEN Finish(p, <<"404", "User not found">>)
           ELSE Goto(p, "api_start_update")
        /\ Saw(p, r, Status(table, r.phone))
        /\ UNCHANGED <<table, stopSince>>

\* api_start lines 269-282
ApiStartUpdate(p) ==
    /\ Resume(p, "api_start_update")
    /\ LET u == UpdateOptInStatus(table, req[p].phone, TRUE)
       IN  /\ table' = u.table
           /\ IF u.success
              THEN /\ Finish(p, <<"200", "User opted in successfully">>)
                   /\ stopSince' = stopSince \ {Canon(req[p].phone)}
              ELSE /\ Finish(p, <<"500", "Update failed">>)
                   /\ UNCHANGED stopSince
    /\ Saw(p, req[p], Status(table, req[p].phone))

\* api_stop lines 299-314
ApiStop(p, inputs) ==
    /\ Free(p)
    /\ \E r \in inputs :
        /\ r.op = "api_stop"
        /\ Take(p, r)
        /\ LET u == UpdateOptInStatus(table, r.phone, FALSE)
           IN  /\ table' = u.table
               /\ IF u.success
                  THEN Finish(p, <<"200", "User opted out successfully">>)
                  ELSE Finish(p, <<"200", "Phone number not currently registered. No action needed.">>)
        /\ Saw(p, r, Status(table, r.phone))
        /\ UNCHANGED stopSince

(***************************************************************************)
(* A store call that raises (sqlite3.Error: locked database, I/O error):   *)
(* no row changes and the except clause of the handler answers.            *)
(***************************************************************************)
\* variant: the except clause of the gate answers like the refusal
StoreErrorReplySame(r) ==
    IF r.op = "sms" THEN MsgRefusal
    ELSE <<"500", "Internal server error">>

\* the reply of the except clause around the store call
StoreErrorReply(r) ==
    IF r.op = "sms" THEN MsgUnavailable
    ELSE IF r.op = "register" THEN <<"500", "Failed to process registration">>
    ELSE IF r.op = "api_start" THEN <<"500", "Failed to process opt-in">>
    ELSE <<"500", "Failed to process opt-out">>

\* variant: the except clause lets the message through to the content rules
RaiseOpen(p, r) ==
    /\ Finish(p, GenerateResponse(Strip(r.body), BodyLower(r)).text)
    /\ Saw(p, r, "error")
    /\ UNCHANGED <<table, stopSince>>

\* the except clause answers, nothing is written
Raise(p, r) ==
    /\ Finish(p, StoreErrorReply(r))
    /\ Saw(p, r, "error")
    /\ UNCHANGED <<table, stopSince>>

\* a later store call of a request raises, or its first one does; a phone
\* that does not normalize never reaches the store
StoreRaises(p, inputs) ==
    IF pc[p] \in {"sms_start_update", "sms_gate", "reg_insert",
                  "api_start_update"}
    THEN Resume(p, pc[p]) /\ Raise(p, req[p])
    ELSE /\ Free(p)
         /\ \E r \in inputs :
              /\ NormalizePhone(r.phone).ok
              /\ r.op = "sms" => Len(r.body) > 0 /\ Branch(BodyLower(r)) # "help"
              /\ Take(p, r)
              /\ Raise(p, r)

(***************************************************************************)
(* Direct calls of RegistrationDatabase by one caller, as test_ci.py and    *)
(* test_registration.py make them, and the passing of time between them.    *)
(***************************************************************************)
SignShort == <<"A", "B">>

SignOk == <<"W", "1", "A", "B", "C">>

SignLong == <<"W", "1", "A", "B", "C", "D", "E", "F">>

\* the arguments of the direct register_user calls
DirectRegisters ==
    {[phone |-> ph, flag |-> o, sign |-> SignOk] :
        ph \in {PhoneA1, PhoneB, PhoneBad}, o \in BOOLEAN}
    \cup {[phone |-> PhoneA1, flag |-> TRUE, sign |-> sg] :
            sg \in {SignShort, SignLong}}

\* the phones of the direct update and query calls
DirectPhones == {PhoneA2, PhoneB, PhoneBad}

\* the caller is free to make a call
CallFree ==
    /\ nreq < MaxRequests
    /\ pc[1] \in {"idle", "done"}

\* the call is made and returns; at is its number among the calls and requests
Called(c) ==
    /\ CallFree
    /\ call' = [c EXCEPT !.at = nreq + 1]
    /\ nreq' = nreq + 1
    /\ UNCHANGED <<pc, req, reply, seen, stopSince, now>>

\* history: the opt-in value a successful call supplied for the phone
Supplied(ok, phone, v) ==
    IF ok THEN [latest EXCEPT ![Canon(phone)] = IF v THEN "in" ELSE "out"]
    ELSE latest

\* the clock reaches the next second
Tick ==
    /\ now < MaxClock
    /\ now' = now + 1
    /\ UNCHANGED <<table, pc, req, reply, nreq, seen, stopSince, call, latest>>

\* db.register_user(full_name, call_sign, phone_number, opted_in)
CallRegisterUser ==
    \E a \in DirectRegisters :
        LET r == RegisterUser(table, "John Doe", a.sign, a.phone, a.flag)
        IN  /\ Called([NoCall EXCEPT !.op = "register_user", !.arg = a.phone,
                                     !.flag = a.flag, !.sign = a.sign,
                                     !.ok = r.ok, !.result = <<r.error>>])
            /\ table' = r.table
            /\ latest' = Supplied(r.ok, a.phone, a.flag)

\* db.update_opt_in_status(phone_number, opted_in)
CallUpdateOptInStatus ==
    \E ph \in DirectPhones, v \in BOOLEAN :
        LET u == UpdateOptInStatus(table, ph, v)
        IN  /\ Called([NoCall EXCEPT !.op = "update_opt_in_status",
                                     !.arg = ph, !.flag = v,
                                     !.ok = u.success])
            /\ table' = u.table
            /\ latest' = Supplied(u.success, ph, v)

\* db.get_user_by_phone(phone_number)
CallGetUserByPhone ==
    \E ph \in DirectPhones :
        /\ Called([NoCall EXCEPT !.op = "get_user_by_phone", !.arg = ph,
                                 !.ok = TRUE,
                                 !.result = GetUserByPhone(table, ph)])
        /\ UNCHANGED <<table, latest>>

\* db.is_user_opted_in(phone_number)
CallIsUserOptedIn ==
    \E ph \in DirectPhones :
        /\ Called([NoCall EXCEPT !.op = "is_user_opted_in", !.arg = ph,
                                 !.ok = IsUserOptedIn(table, ph)])
        /\ UNCHANGED <<table, latest>>

\* db.get_all_registrations()
CallGetAllRegistrations ==
    \E rows \in GetAllRegistrations(table) :
        /\ Called([NoCall EXCEPT !.op = "get_all_registrations", !.ok = TRUE,
                                 !.result = rows])
        /\ UNCHANGED <<table, latest>>

\* db.get_opted_in_users()
CallGetOptedInUsers ==
    \E rows \in GetOptedInUsers(table) :
        /\ Called([NoCall EXCEPT !.op = "get_opted_in_users", !.ok = TRUE,
                                 !.result = rows])
        /\ UNCHANGED <<table, latest>>

\* inbound messages whose From is no phone number (a short code)
ShortCodeInputs ==
    SmsRequests({<<>>, WordStop, Upper(WordStart),
                 <<"h", "e", "l", "l", "o">>,
                 <<"p", "r", "o", "p", " ", "E", "S", "T">>}, {PhoneBad})

(***************************************************************************)
(* Direct calls of the pure functions: normalize_phone_number and           *)
(* _get_timezone_from_code.                                                *)
(***************************************************************************)
\* ten-digit national numbers: two of the 555 test range, two assigned ones,
\* and one that is no number of the plan
NationalNumbers ==
    { <<"5", "5", "5", "1", "2", "3", "4", "5", "6", "7">>,
      <<"5", "5", "5", "9", "9", "9", "9", "9", "9", "9">>,
      <<"2", "1", "2", "5", "5", "5", "0", "1", "2", "3">>,
      <<"8", "0", "8", "2", "3", "4", "5", "6", "7", "8">>,
      <<"1", "2", "3", "4", "5", "6", "7", "8", "9", "0">> }

\* d written as area code, exchange and line with the given separators
Separated(d, open, close, sep) ==
    open \o SubSeq(d, 1, 3) \o close \o SubSeq(d, 4, 6) \o sep
         \o SubSeq(d, 7, 10)

\* the ways of writing the national number d: ten digits, 1 and ten digits,
\* +1 and ten digits, each bare and with separators
PhoneForms(d) ==
    { d,
      Separated(d, <<"(">>, <<")", " ">>, <<"-">>),
      Separated(d, <<>>, <<"-">>, <<"-">>),
      Separated(d, <<>>, <<".">>, <<".">>),
      Separated(d, <<" ">>, <<" ">>, <<" ">>),
      <<"1">> \o d,
      <<"1", "-">> \o Separated(d, <<>>, <<"-">>, <<"-">>),
      <<"1", " ">> \o Separated(d, <<"(">>, <<")", " ">>, <<"-">>),
      <<"+", "1">> \o d,
      <<"+", "1", "-">> \o Separated(d, <<>>, <<"-">>, <<"-">>),
      <<"+", "1", " ">> \o Separated(d, <<"(">>, <<")", " ">>, <<"-">>) }

\* the phone strings passed to normalize_phone_number
NormalizeInputs ==
    UNION {PhoneForms(d) : d \in NationalNumbers}
    \cup {PhoneBad, <<>>, <<"a", "b", "c">>}

\* s with its first character in upper case and the others in lower case
Capitalize(s) ==
    [i \in 1..Len(s) |-> IF i = 1 THEN ToUpperChar(s[i]) ELSE ToLowerChar(s[i])]

\* the codes passed to _get_timezone_from_code: every code of the map as
\* written, in upper case, in lower case and capitalized, and other words
ResolveInputs ==
    UNION {{e[1], Upper(e[1]), Lower(e[1]), Capitalize(e[1])} :
              e \in TimezoneMap}
    \cup { <<>>, <<"X", "Y", "Z">>, <<"B", "S", "T">>, <<"E", "S">>,
           <<"E", "S", "T", "T">>, <<"C", "E", "T">>, <<"c", "h", "s">> }

\* what a call of a pure function leaves alone
pureFrame == <<table, pc, req, reply, nreq, seen, stopSince, now, latest>>

\* db.normalize_phone_number(phone_number)
CallNormalizePhone ==
    \E ph \in NormalizeInputs :
        LET n == NormalizePhone(ph)
        IN  /\ call' = [NoCall EXCEPT !.op = "normalize_phone_number",
                                      !.arg = ph, !.ok = n.ok,
                                      !.result = n.value]
            /\ UNCHANGED pureFrame

\* provider._get_timezone_from_code(timezone_code)
CallTimezoneFromCode ==
    \E code \in ResolveInputs :
        LET zone == TimezoneFromCode(code)
        IN  /\ call' = [NoCall EXCEPT !.op = "_get_timezone_from_code",
                                      !.arg = code, !.ok = Len(zone) > 0,
                                      !.result = zone]
            /\ UNCHANGED pureFrame

(***************************************************************************)
(* The endpoints of app.py that call no store: /register and the           *)
(* propagation API.                                                        *)
(***************************************************************************)
\* GET and POST /register
RegisterPageRequests ==
    {[NoRequest EXCEPT !.op = "register_page", !.method = m] :
        m \in {"GET", "POST"}}

\* GET /sms/api/v1/prop/<timezone> and GET /sms/curl/v1/prop/<timezone>; the
\* routes .../propagation/<timezone> lead to the same two functions
PropagationRequests(codes) ==
    {[NoRequest EXCEPT !.op = o, !.method = "GET", !.timezone = c] :
        o \in {"api_propagation", "curl_propagation"}, c \in codes}

PropagationCodes ==
    {<<"E", "S", "T">>, <<"c", "h", "s", "t">>, <<"p", "d", "t">>,
     <<"X", "Y", "Z">>}

WebInputs == RegisterPageRequests \cup PropagationRequests(PropagationCodes)

\* what _fetch_solar_data ends with, the records of a feed out of order
\* included
AllFetchOutcomes ==
    FetchOutcomes
    \cup {[ok |-> TRUE, data |-> d, error |-> <<>>] : d \in OddSolarRecords}

\* the text of the ValueError of _get_timezone_from_code
InvalidTimezoneCode(timezone_code) ==
    <<"Invalid timezone code '">> \o timezone_code \o
    <<"'. Supported codes: AKDT, AKST, AST, CDT, CST, ChST, EDT, EST, GMT, GST, HST, MDT, MST, PDT, PST, UTC">>

\* history: the request of p made the fetch that ended with outcome, or none
Fetched(p, made, outcome) ==
    seen' = [seen EXCEPT ![p] = [status |-> "-", stopped |-> FALSE,
                                 fetch |-> IF made THEN outcome ELSE NoFetch]]

\* register: the page has moved
Register(p, inputs) ==
    /\ Free(p)
    /\ \E r \in inputs :
        /\ r.op = "register_page"
        /\ Take(p, r)
        /\ Finish(p, <<"301", "Registration service moved to www.hampuff.com/register", "moved">>)
        /\ Fetched(p, FALSE, NoFetch)
        /\ UNCHANGED <<table, stopSince>>

\* lines 276-290: the fields of the answer with the update time
JsonFields(timezone_code, zone, solar_data, update_time) ==
    IF ~update_time.ok
    THEN update_time
    ELSE [ok |-> TRUE, error |-> "",
          text |->
            <<"timezone">> \o Upper(timezone_code) \o
            <<"timezone_name", ZoneDisplayName(zone), "updated">>
            \o update_time.text \o
            <<"solar_flux", FieldOrNA(solar_data, "solarflux"),
              "a_index", FieldOrNA(solar_data, "aindex"),
              "k_index", FieldOrNA(solar_data, "kindex"),
              "sunspots", FieldOrNA(solar_data, "sunspots"),
              "muf", FieldOrNA(solar_data, "muf"),
              "xray", FieldOrNA(solar_data, "xray"),
              "solar_winds", FieldOrNA(solar_data, "solarwind"),
              "raw_updated_utc">> \o solar_data.updated]

\* lines 267-273 once the zone is resolved: the feed is fetched, the update
\* time is read from the record (KeyError when it is missing) and converted
JsonOfZone(timezone_code, zone, outcome) ==
    IF ~outcome.ok
    THEN [ok |-> FALSE, error |-> "ValueError", text |-> outcome.error]
    ELSE IF "updated" \notin DOMAIN outcome.data
    THEN [ok |-> FALSE, error |-> "KeyError", text |-> <<"'updated'">>]
    ELSE JsonFields(timezone_code, zone, outcome.data,
                    ParseUpdateTime(outcome.data.updated, zone))

\* get_propagation_data_json: the fields of the answer, or ok = FALSE with
\* the class and the text of the exception
GetPropagationDataJson(timezone_code, outcome) ==
    IF Len(TimezoneFromCode(timezone_code)) = 0
    THEN [ok |-> FALSE, error |-> "ValueError",
          text |-> InvalidTimezoneCode(timezone_code)]
    ELSE JsonOfZone(timezone_code, TimezoneFromCode(timezone_code)[1],
                    outcome)

\* lines 242-244: the consent notice is appended when asked for
WithConsent(hampuff_data, include_consent) ==
    IF hampuff_data.ok /\ include_consent
    THEN [hampuff_data EXCEPT !.text = @ \o <<"\n\n", MsgConsent>>]
    ELSE hampuff_data

\* get_propagation_data: the text of the provider, with the consent notice
\* when asked for, or what the provider raises
GetPropagationData(timezone_code, include_consent, outcome) ==
    IF Len(TimezoneFromCode(timezone_code)) = 0
    THEN [ok |-> FALSE, error |-> "ValueError",
          text |-> InvalidTimezoneCode(timezone_code)]
    ELSE WithConsent(ProviderResult(outcome,
                                    TimezoneFromCode(timezone_code)[1]),
                     include_consent)

\* the answer of api_propagation: 200 with the fields, 400 for ValueError,
\* 500 for any other exception
ApiAnswer(timezone, data) ==
    IF data.ok THEN <<"200">> \o data.text
    ELSE IF data.error = "ValueError"
    THEN <<"400", "Invalid timezone code", "timezone">> \o timezone
         \o <<"message">> \o data.text
    ELSE <<"500", "Failed to retrieve propagation data">>

\* the answer of curl_propagation: 200 with the text of the provider, 400
\* for ValueError, 500 with the text of any other exception
CurlAnswer(timezone, data) ==
    IF data.ok THEN <<"200">> \o data.text
    ELSE IF data.error = "ValueError"
    THEN <<"400", "Invalid timezone code: ">> \o timezone \o
         <<"\nSupported timezones: EST, EDT, CST, CDT, MST, MDT, PST, PDT, AKST, AKDT, HST, AST, ChST, GST, UTC, GMT">>
    ELSE <<"500", "Error: Failed to retrieve propagation data\n">>
         \o data.text

\* api_propagation
ApiPropagation(p, inputs, outcomes) ==
    /\ Free(p)
    /\ \E r \in inputs, outcome \in outcomes :
        /\ r.op = "api_propagation"
        /\ Take(p, r)
        /\ Finish(p, ApiAnswer(r.timezone,
                               GetPropagationDataJson(Upper(r.timezone),
                                                      outcome)))
        /\ Fetched(p, Len(TimezoneFromCode(Upper(r.timezone))) > 0, outcome)
        /\ UNCHANGED <<table, stopSince>>

\* curl_propagation
CurlPropagation(p, inputs, outcomes) ==
    /\ Free(p)
    /\ \E r \in inputs, outcome \in outcomes :
        /\ r.op = "curl_propagation"
        /\ Take(p, r)
        /\ Finish(p, CurlAnswer(r.timezone,
                                GetPropagationData(Upper(r.timezone), FALSE,
                                                   outcome)))
        /\ Fetched(p, Len(TimezoneFromCode(Upper(r.timezone))) > 0, outcome)
        /\ UNCHANGED <<table, stopSince>>

\* the zones of the direct calls of the formatter
FormatZones == {"US/Eastern", "US/Pacific", "UTC"}

\* provider._format_hampuff_response(solar_data, timezone); error is the
\* class of the exception it raises
CallFormatHampuffResponse ==
    \E d \in SolarRecords \cup OddSolarRecords, zone \in FormatZones :
        LET f == FormatHampuffResponse(d, zone)
        IN  /\ call' = [NoCall EXCEPT !.op = "_format_hampuff_response",
                                      !.data = d, !.zone = zone, !.ok = f.ok,
                                      !.error = f.error, !.result = f.text]
            /\ UNCHANGED pureFrame

(***************************************************************************)
(* Specifications.                                                         *)
(***************************************************************************)
\* the steps of handler p on the requests of inputs
Handle(p, inputs) ==
    \/ SmsEmpty(p, inputs)
    \/ SmsHelp(p, inputs)
    \/ SmsStop(p, inputs)
    \/ SmsStart(p, inputs)
    \/ SmsStartUpdate(p)
    \/ SmsGate(p, inputs)
    \/ SmsFetch(p)
    \/ RegisterCheck(p, inputs)
    \/ RegisterInsert(p)
    \/ ApiStart(p, inputs)
    \/ ApiStartUpdate(p)
    \/ ApiStop(p, inputs)

\* the requests of the concurrent specifications
ConcInputs ==
    SmsRequests({<<>>, WordStop, Upper(WordStart), WordHelp,
                 <<"p", "r", "o", "p", " ", "E", "S", "T">>}, Senders)
    \cup RegisterRequests({PhoneA1, PhoneA2, PhoneB})
    \cup ApiRequests({PhoneA1})

\* the requests of the sequential specification
AllInputs ==
    SmsRequests(Bodies, Senders)
    \cup RegisterRequests(RegisterPhones)
    \cup ApiRequests({PhoneA1, PhoneB, PhoneBad})

Next == \E p \in Procs : Handle(p, ConcInputs)

\* concurrent handlers; the store answers every call
Spec == Init /\ [][Next]_vars

FaultNext ==
    \E p \in Procs : Handle(p, ConcInputs) \/ StoreRaises(p, ConcInputs)

\* concurrent handlers; the store may raise on any call
FaultSpec == Init /\ [][FaultNext]_vars

SeqNext == Handle(1, AllInputs) \/ StoreRaises(1, AllInputs)

\* one request at a time, every input; the store may raise on any call
SeqSpec == Init /\ [][SeqNext]_vars

UnitNext ==
    \/ Tick
    \/ CallRegisterUser
    \/ CallUpdateOptInStatus
    \/ CallGetUserByPhone
    \/ CallIsUserOptedIn
    \/ CallGetAllRegistrations
    \/ CallGetOptedInUsers
    \/ SmsEmpty(1, ShortCodeInputs)
    \/ SmsStop(1, ShortCodeInputs)
    \/ SmsStart(1, ShortCodeInputs)
    \/ SmsGate(1, ShortCodeInputs)

\* one caller of the store, the clock, and messages from a short code
UnitSpec == Init /\ [][UnitNext]_vars

ApiNext ==
    \/ Register(1, WebInputs)
    \/ ApiPropagation(1, WebInputs, AllFetchOutcomes)
    \/ CurlPropagation(1, WebInputs, AllFetchOutcomes)

\* one request at a time to /register and the propagation API, every
\* outcome of the feed
ApiSpec == Init /\ [][ApiNext]_vars

\* the propagation requests and the outcomes of the feed next to the
\* messages: a supported and an unsupported code, the feed answering or
\* failing
WebPropagation == PropagationRequests({<<"E", "S", "T">>, <<"X", "Y", "Z">>})

WebOutcomes ==
    {o \in FetchOutcomes : o.ok => o.data = SampleSolarData}

WebNext ==
    \/ SeqNext
    \/ ApiPropagation(1, WebPropagation, WebOutcomes)
    \/ CurlPropagation(1, WebPropagation, WebOutcomes)

\* one request at a time: the messages and the store endpoints of SeqSpec
\* and the propagation API
WebSpec == Init /\ [][WebNext]_vars

\* where a handler can be
Positions ==
    {"idle", "done", "sms_start_update", "sms_gate", "sms_fetch",
     "reg_insert", "api_start_update"}

\* a handler that has taken a request leaves the call it is in: the handler
\* is one synchronous function, each store call returns or raises, and the
\* fetch is bounded by its timeout (requests.get(..., timeout=10))
MovesOn(p) ==
    /\ pc[p] \notin {"idle", "done"}
    /\ \E at \in Positions \ {pc[p]} : pc' = [pc EXCEPT ![p] = at]

\* SeqSpec with a handler whose calls return
LiveSpec == Init /\ [][SeqNext]_vars /\ WF_pc(MovesOn(1))

PureNext ==
    \/ CallNormalizePhone
    \/ CallTimezoneFromCode
    \/ CallFormatHampuffResponse

\* calls of the pure functions on their inputs
PureSpec == Init /\ [][PureNext]_vars

(***************************************************************************)
(* Vocabulary of the properties.                                           *)
(***************************************************************************)
Done(p) == pc[p] = "done"

\* p's request is an inbound message taken by the given branch
IsSms(p, branch) ==
    /\ req[p].op = "sms"
    /\ Len(req[p].body) > 0
    /\ Branch(BodyLower(req[p])) = branch

\* this step, handler p receives a request
Arrives(p) == nreq' = nreq + 1 /\ Free(p)

\* this step is taken by handler p
Acts(p) == Arrives(p) \/ (nreq' = nreq /\ pc'[p] # pc[p])

\* this step, handler p receives a message taken by the given branch
SmsArrives(p, branch) ==
    /\ Arrives(p)
    /\ req'[p].op = "sms"
    /\ Len(req'[p].body) > 0
    /\ Branch(BodyLower(req'[p])) = branch

AlreadyRegistered == <<"400", "Phone number already registered">>

Registered == <<"201", "Registration successful">>

(***************************************************************************)
(* Properties of the registration store.                                   *)
(***************************************************************************)
\* C1: in every reachable state, whatever the interleaving of register,
\* opt-in and message handling, no two rows of the table have the same
\* normalized phone number.
C1_OneRowPerPhone ==
    \A i, j \in 1..Len(table) :
        \/ i = j
        \/ /\ table[i].phone_normalized # table[j].phone_normalized
           /\ Canon(table[i].phone_number) # Canon(table[j].phone_number)

\* two registrations of one number raced, and the table holds its one row
C1_Witness ==
    \E p, q \in Procs :
        /\ p # q /\ Done(p) /\ Done(q)
        /\ req[p].op = "register" /\ req[q].op = "register"
        /\ Canon(req[p].phone) = Canon(req[q].phone)
        /\ reply[p] = Registered
        /\ seen[q].status # "none"
        /\ reply[q] # AlreadyRegistered
        /\ Canon(req[p].phone) \in RegisteredPhones(table)

\* C2: of two register calls for one normalized phone, one succeeds and the
\* other fails with AlreadyRegistered, also when both looked the phone up
\* before either inserted.
C2_LoserGetsAlreadyRegistered ==
    \A p, q \in Procs :
        ( /\ p # q /\ Done(p) /\ Done(q)
          /\ req[p].op = "register" /\ req[q].op = "register"
          /\ Canon(req[p].phone) = Canon(req[q].phone)
          /\ reply[p] = Registered )
        => reply[q] = AlreadyRegistered

\* C3: a register call that finds its normalized phone registered fails
\* with AlreadyRegistered, whatever the formatting, and leaves the table as
\* it was.
C3_DuplicateRejected ==
    [][ \A p \in Procs :
          ( /\ Arrives(p)
            /\ req'[p].op = "register"
            /\ Canon(req'[p].phone) \in RegisteredPhones(table) )
          => /\ pc'[p] = "done"
             /\ reply'[p] = AlreadyRegistered
             /\ table' = table ]_vars

\* a second submission, formatted differently from the first, was rejected
C3_Witness ==
    \E p \in Procs, i \in 1..Len(table) :
        /\ Done(p) /\ req[p].op = "register"
        /\ reply[p] = AlreadyRegistered
        /\ table[i].phone_normalized = Canon(req[p].phone)
        /\ table[i].phone_number # req[p].phone


(***************************************************************************)
(* Properties of the opt-in gate and of the administrative commands.       *)
(***************************************************************************)
\* the sender of the message handler p receives in this step
NewSender(p) == req'[p].phone

\* the store raised in the step p just took
Raised(p) == seen'[p].status = "error"

\* C4 as stated: a message that is none of stop, unregister, start,
\* register, help, ? from a sender who is not opted in is answered with the
\* registration-required message (the store answering its call).
C4_Stated ==
    [][ \A p \in Procs :
          ( /\ Arrives(p)
            /\ req'[p].op = "sms"
            /\ Branch(BodyLower(req'[p])) = "gate"
            /\ Status(table, NewSender(p)) \in {"none", "out"}
            /\ ~Raised(p) )
          => reply'[p] = MsgRefusal ]_vars

\* C4: a non-empty message that is none of stop, unregister, start,
\* register, help, ? from a sender who is not opted in is answered with the
\* registration-required message, or with the service-unavailable message
\* when the opt-in check raises; an empty body is answered "No message body
\* received".  No such message gets propagation data, a retort, the airport
\* message or the default message.
C4_GateRefuses ==
    [][ \A p \in Procs :
          ( /\ Arrives(p)
            /\ req'[p].op = "sms"
            /\ Branch(BodyLower(req'[p])) = "gate"
            /\ Status(table, NewSender(p)) \in {"none", "out"} )
          => /\ pc'[p] = "done"
             /\ reply'[p] = IF Len(req'[p].body) = 0 THEN MsgNoBody
                            ELSE IF Raised(p) THEN MsgUnavailable
                            ELSE MsgRefusal ]_vars

\* an opted-out sender asked for propagation data and was refused
C4_Witness ==
    \E p \in Procs :
        /\ Done(p) /\ IsSms(p, "gate")
        /\ GenerateResponse(Strip(req[p].body), BodyLower(req[p])).fetch
        /\ seen[p].status = "out"
        /\ reply[p] = MsgRefusal

C7_StopReply ==
    [][ \A p \in Procs :
          SmsArrives(p, "stop")
          => /\ pc'[p] = "done"
             /\ reply'[p] = MsgUnregistered
                  <=> Status(table, NewSender(p)) # "none"
             /\ reply'[p] = MsgNotRegisteredNoAction
                  <=> Status(table, NewSender(p)) = "none"
             /\ ~IsUserOptedIn(table', NewSender(p)) ]_vars

\* an opted-in sender sent stop, got the confirmation and is opted out
C7_Witness ==
    \E p \in Procs :
        /\ Done(p) /\ IsSms(p, "stop")
        /\ seen[p].status = "in"
        /\ reply[p] = MsgUnregistered
        /\ Status(table, req[p].phone) = "out"

\* the identity of the rows: ids with their normalized phones
RowIdentities(tbl) ==
    {<<tbl[i].id, tbl[i].phone_normalized>> : i \in 1..Len(tbl)}

\* C8: handling a message creates and deletes no registration, the set of
\* registered phones changes through register alone, and start / register
\* from a sender with no registration is answered "complete registration
\* first" with the table unchanged.
C8_SmsKeepsRows ==
    [][ \A p \in Procs :
          /\ (Acts(p) /\ req'[p].op = "sms")
               => /\ Len(table') = Len(table)
                  /\ RowIdentities(table') = RowIdentities(table)
          /\ (Acts(p) /\ RegisteredPhones(table') # RegisteredPhones(table))
               => req'[p].op = "register"
          /\ (SmsArrives(p, "start") /\ Status(table, NewSender(p)) = "none")
               => /\ pc'[p] = "done"
                  /\ reply'[p] = MsgRegisterFirst
                  /\ table' = table ]_vars

\* start from a sender without registration, answered "register first",
\* the sender still without registration
C8_Witness ==
    \E p \in Procs :
        /\ Done(p) /\ IsSms(p, "start")
        /\ seen[p].status = "none"
        /\ reply[p] = MsgRegisterFirst
        /\ Status(table, req[p].phone) = "none"
        /\ Len(table) > 0

\* C9: start / register from a sender who has a registration goes on to
\* the update, which sets opted_in and is answered with the registration
\* confirmation: under no interleaving does the handler reach the gate or
\* the content classification.
C9_StartConfirms ==
    [][ \A p \in Procs :
          /\ (SmsArrives(p, "start") /\ Status(table, NewSender(p)) # "none")
               => pc'[p] = "sms_start_update"
          /\ (pc[p] = "sms_start_update" /\ Acts(p))
               => /\ pc'[p] = "done"
                  /\ reply'[p] = MsgRegistered
                  /\ Status(table', req[p].phone) = "in" ]_vars

\* a sender's start was confirmed although the sender was already opted in
\* when the update ran
C9_Witness ==
    \E p \in Procs :
        /\ Done(p) /\ IsSms(p, "start")
        /\ seen[p].status = "in"
        /\ reply[p] = MsgRegistered
        /\ Status(table, req[p].phone) = "in"

\* C10: help / ? is answered with the help text whatever the sender's
\* status, without a call to the store and without a change of the table.
C10_HelpForAll ==
    [][ \A p \in Procs :
          ( /\ Arrives(p)
            /\ req'[p].op = "sms"
            /\ BodyLower(req'[p]) \in {WordHelp, WordQuestion} )
          => /\ pc'[p] = "done"
             /\ reply'[p] = MsgHelp
             /\ seen'[p].status = "-"
             /\ table' = table ]_vars

\* an opted-out sender got the help text
C10_Witness ==
    \E p \in Procs :
        /\ Done(p) /\ req[p].op = "sms"
        /\ BodyLower(req[p]) \in {WordHelp, WordQuestion}
        /\ reply[p] = MsgHelp
        /\ Status(table, req[p].phone) = "out"


(***************************************************************************)
(* Properties of the content classification.                               *)
(***************************************************************************)
\* the reply of the ordered matcher list: stop / unregister, start /
\* register, help / ?, the opt-in gate, then the content rules in their
\* order, for a request r whose sender's registration is status and whose
\* fetch, if one is made, ends with outcome
ReferenceReply(r, status, outcome) ==
    LET body == Strip(r.body)
        body_lower == Lower(body)
        o == FirstMatch(ContentRules, body, body_lower)
        data == ProviderResult(outcome, o.zone)
    IN  IF body_lower \in {WordStop, WordUnregister}
        THEN (IF status = "none" THEN MsgNotRegisteredNoAction
              ELSE MsgUnregistered)
        ELSE IF body_lower \in {WordStart, WordRegister}
        THEN (IF status = "none" THEN MsgRegisterFirst ELSE MsgRegistered)
        ELSE IF body_lower \in {WordHelp, WordQuestion} THEN MsgHelp
        ELSE IF status # "in" THEN MsgRefusal
        ELSE IF ~o.fetch THEN o.text
        ELSE IF data.ok THEN data.text \o <<"\n\n", MsgConsent>>
        ELSE o.text

AtContent(p) ==
    /\ Done(p) /\ req[p].op = "sms" /\ Len(req[p].body) > 0
    /\ BodyLower(req[p]) \notin {WordStop, WordUnregister, WordStart,
                                 WordRegister, WordHelp, WordQuestion}
    /\ seen[p].status = "in"

\* C12 as stated: an opted-in sender sending a body of exactly 4 characters
\* receives the airport message.
C12_Stated ==
    \A p \in Procs :
        ( /\ Done(p) /\ req[p].op = "sms"
          /\ seen[p].status = "in"
          /\ Len(Strip(req[p].body)) = 4 )
        => reply[p] = MsgAirpuff

\* C12: an opted-in sender sending a body that has exactly 4 characters
\* once trimmed, is none of the commands stop and help and contains neither
\* profanity token receives the airport message.
C12_FourCharacters ==
    \A p \in Procs :
        ( /\ AtContent(p)
          /\ Len(Strip(req[p].body)) = 4
          /\ ~Contains(TokenA, BodyLower(req[p]))
          /\ ~Contains(TokenB, BodyLower(req[p])) )
        => reply[p] = MsgAirpuff

\* an opted-in sender sent an airport code and got the airport message
C12_Witness ==
    \E p \in Procs :
        /\ AtContent(p)
        /\ BodyLower(req[p]) = <<"k", "j", "f", "k">>
        /\ reply[p] = MsgAirpuff

\* C13: the body prop alone from an opted-in sender is answered with the
\* airport message in the step of the gate: the handler resolves no zone
\* and makes no fetch.
C13_PropAlone ==
    [][ \A p \in Procs :
          ( /\ Arrives(p)
            /\ req'[p].op = "sms"
            /\ BodyLower(req'[p]) = WordProp
            /\ Status(table, NewSender(p)) = "in"
            /\ ~Raised(p) )
          => /\ pc'[p] = "done"
             /\ reply'[p] = MsgAirpuff
             /\ seen'[p].fetch = NoFetch ]_vars

\* an opted-in sender sent prop alone and got the airport message
C13_Witness ==
    \E p \in Procs :
        /\ AtContent(p)
        /\ BodyLower(req[p]) = WordProp
        /\ seen[p].fetch = NoFetch
        /\ reply[p] = MsgAirpuff


\* the message is prop or propagation followed by a code of the advertised
\* vocabulary in some letter case
AdvertisedQuery(r) ==
    LET parts == Split(BodyLower(r))
    IN  /\ Len(parts) >= 2
        /\ parts[1] \in {WordProp, WordPropagation}
        /\ \E code \in ValidTimezones : Lower(code) = parts[2]

\* C14: a message prop <code> or propagation <code> from an opted-in
\* sender, for every code of the advertised vocabulary in any letter case,
\* is answered as a propagation query and never with the default message.
C14_EveryAdvertisedCode ==
    \A p \in Procs :
        (AtContent(p) /\ AdvertisedQuery(req[p])) => reply[p] # MsgDefault

\* the update times of the complete records in the zones of the queries
ExpectedStamp(d, zone) ==
    CASE d = SampleSolarData /\ zone = "Eastern" ->
           <<"Thu", " ", "0", "5", " ", "Nov", " ", "0", "7", ":", "0", "0">>
      [] d = SampleSolarData /\ zone = "Pacific" ->
           <<"Thu", " ", "0", "5", " ", "Nov", " ", "0", "4", ":", "0", "0">>
      [] d = SummerSolarData /\ zone = "Eastern" ->
           <<"Tue", " ", "3", "0", " ", "Jun", " ", "2", "2", ":", "3", "0">>
      [] d = SummerSolarData /\ zone = "Pacific" ->
           <<"Tue", " ", "3", "0", " ", "Jun", " ", "1", "9", ":", "3", "0">>

\* the block of a record d with the consent notice, under the header of zone
ExpectedBlock(d, zone) ==
    <<"[Hampuff - ", zone, "] Updated: ">> \o ExpectedStamp(d, zone) \o
    <<"\n\tSolar Flux  = ", d.solarflux,
                "\n\tA Index     = ", d.aindex,
                "\n\tK Index     = ", d.kindex,
                "\n\tSunspot #   = ", d.sunspots,
                "\n\tMUF         = ", d.muf,
                "\n\tXRay        = ", d.xray,
                "\n\tSolar Winds = ", d.solarwind,
                "\n\n",
                "Your SMS request provides consent to send the reply.">>

\* the queries of the inputs for a supported zone, with the zone's name
QueryZone(body_lower) ==
    IF body_lower = <<"p", "r", "o", "p", " ", "e", "s", "t">> THEN "Eastern"
    ELSE IF body_lower = <<"p", "r", "o", "p", "a", "g", "a", "t", "i", "o", "n", " ", "p", "d", "t">> THEN "Pacific"
    ELSE ""

\* C15: prop <zone> from an opted-in sender, the feed returning a complete
\* record, is answered with the header naming the zone and the update time
\* converted to the zone, every field value verbatim on its line, and the
\* consent notice.
C15_FormattedBlock ==
    \A p \in Procs :
        ( /\ AtContent(p)
          /\ QueryZone(BodyLower(req[p])) # ""
          /\ seen[p].fetch.ok
          /\ seen[p].fetch.data \in {SampleSolarData, SummerSolarData} )
        => reply[p] = ExpectedBlock(seen[p].fetch.data,
                                   QueryZone(BodyLower(req[p])))

\* a summer record, its update time early in the UTC day, was sent to an
\* opted-in sender in Eastern time, dated the day before
C15_Witness ==
    \E p \in Procs :
        /\ AtContent(p)
        /\ BodyLower(req[p]) = <<"p", "r", "o", "p", " ", "e", "s", "t">>
        /\ seen[p].fetch.ok /\ seen[p].fetch.data = SummerSolarData
        /\ SubSeq(reply[p], 4, 9) = <<"Tue", " ", "3", "0", " ", "Jun">>

\* the fetch of p's request failed, or the record it returned cannot be
\* formatted
FetchFailed(p) ==
    /\ seen[p].fetch # NoFetch
    /\ \/ ~seen[p].fetch.ok
       \/ seen[p].fetch.data \in {NoUpdateSolarData, BadTimeSolarData}

\* C16: when the fetch or the formatting fails for a valid prop command the
\* reply is the apology that names the requested zone and lists the
\* supported zones; nothing of the failure is in the reply.
C16_PropApology ==
    \A p \in Procs :
        ( /\ AtContent(p)
          /\ QueryZone(BodyLower(req[p])) # ""
          /\ FetchFailed(p) )
        => reply[p] =
             <<"Sorry, unable to retrieve hampuff data for timezone ">>
             \o Upper(Split(BodyLower(req[p]))[2]) \o
             <<". Supported timezones: EST, EDT, CST, CDT, MST, MDT, PST, PDT, AKST, AKDT, HST, AST, ChST, GST, UTC, GMT.">>

\* a record without update time was fetched for propagation pdt and the
\* apology names PDT
C16_Witness ==
    \E p \in Procs :
        /\ AtContent(p)
        /\ BodyLower(req[p]) = <<"p", "r", "o", "p", "a", "g", "a", "t", "i", "o", "n", " ", "p", "d", "t">>
        /\ seen[p].fetch.ok /\ seen[p].fetch.data = NoUpdateSolarData
        /\ SubSeq(reply[p], 2, 4) = <<"P", "D", "T">>

\* the message of p reached the legacy rule
AtLegacy(p) ==
    /\ AtContent(p)
    /\ ~Contains(TokenA, BodyLower(req[p]))
    /\ ~Contains(TokenB, BodyLower(req[p]))
    /\ Len(BodyLower(req[p])) # 4
    /\ ~RuleMatches("prop", Strip(req[p].body), BodyLower(req[p]))
    /\ Contains(WordHampuff, BodyLower(req[p]))

\* C17: at the legacy rule hampuffe and hampuffp (in any letter case) are
\* answered with the data for Eastern and Pacific and the consent notice
\* when the feed returns a complete record, and with the fixed apology when
\* the fetch fails; every other body is rejected before any fetch and
\* answered with the fixed apology.
C17_Legacy ==
    \A p \in Procs :
        AtLegacy(p) =>
          LET body_lower == BodyLower(req[p])
              zone == IF body_lower[8] = "e" THEN "Eastern" ELSE "Pacific"
              d == seen[p].fetch.data
          IN  IF body_lower \in {<<"h", "a", "m", "p", "u", "f", "f", "e">>, <<"h", "a", "m", "p", "u", "f", "f", "p">>}
              THEN /\ seen[p].fetch # NoFetch
                   /\ (seen[p].fetch.ok /\ d \in {SampleSolarData, SummerSolarData})
                        => reply[p] = ExpectedBlock(d, zone)
                   /\ FetchFailed(p)
                        => reply[p] = <<"Sorry, unable to retrieve hampuff data at this time.">>
              ELSE /\ seen[p].fetch = NoFetch
                   /\ reply[p] = <<"Sorry, unable to retrieve hampuff data at this time.">>

\* a body of eight characters whose last is neither e nor p was rejected
\* before any fetch and answered with the apology
C17_Witness ==
    \E p \in Procs :
        /\ AtLegacy(p)
        /\ BodyLower(req[p]) = <<"h", "a", "m", "p", "u", "f", "f", "x">>
        /\ seen[p].fetch = NoFetch
        /\ reply[p] = MsgLegacyApology

\* C18: fail closed: when the opt-in check of a message raises, the handler
\* answers at once with the service-unavailable message, it classifies no
\* content and makes no fetch: the reply is no propagation data, no retort,
\* not the airport message and not the default message.
C18_FailClosed ==
    [][ \A p \in Procs :
          ( /\ Acts(p)
            /\ req'[p].op = "sms"
            /\ Len(req'[p].body) > 0
            /\ BodyLower(req'[p]) \notin {WordStop, WordUnregister, WordStart,
                                          WordRegister, WordHelp, WordQuestion}
            /\ Raised(p) )
          => /\ pc'[p] = "done"
             /\ seen'[p].fetch = NoFetch
             /\ reply'[p] = <<"Service temporarily unavailable. Please try again later.">>
             /\ reply'[p] \notin {MsgRetortA, MsgRetortB, MsgAirpuff, MsgDefault} ]_vars

\* the opt-in check raised for an opted-in sender's profanity, and no retort
\* was sent
C18_Witness ==
    \E p \in Procs :
        /\ Done(p) /\ req[p].op = "sms"
        /\ Contains(TokenB, BodyLower(req[p]))
        /\ seen[p].status = "error"
        /\ Status(table, req[p].phone) = "in"
        /\ reply[p] = MsgUnavailable

\* the opt-in check of p's message raised
GateRaised(p) ==
    /\ Done(p) /\ req[p].op = "sms" /\ Len(req[p].body) > 0
    /\ BodyLower(req[p]) \notin {WordStop, WordUnregister, WordStart,
                                 WordRegister, WordHelp, WordQuestion}
    /\ seen[p].status = "error"

\* C19 as stated: an error raised by the opt-in check is answered with the
\* refusal sent to a sender who is not opted in.
C19_Stated ==
    \A p \in Procs :
        GateRaised(p)
        => reply[p] = <<"You are not registered for SMS service. Please visit www.hampuff.com/register to opt-in.">>

\* C19: an error raised by the opt-in check is answered with the
\* service-unavailable message, which is not the refusal sent to a sender
\* who is not opted in.
C19_UnavailableOnError ==
    \A p \in Procs :
        GateRaised(p)
        => /\ reply[p] = MsgUnavailable
           /\ reply[p] # <<"You are not registered for SMS service. Please visit www.hampuff.com/register to opt-in.">>

\* the opt-in check raised for a sender without registration, who got the
\* service-unavailable message
C19_Witness ==
    \E p \in Procs :
        /\ GateRaised(p)
        /\ Status(table, req[p].phone) = "none"
        /\ reply[p] = MsgUnavailable

\* the fixed replies of the handler
FixedReplies ==
    {MsgNoBody, MsgUnregistered, MsgNotRegisteredNoAction, MsgUnavailable,
     MsgRegistered, MsgRegisterFirst, MsgHelp, MsgRefusal, MsgError,
     MsgRetortA, MsgRetortB, MsgAirpuff, MsgDefault, MsgLegacyApology}

\* texts of the exceptions of the feed and the formatting
ExceptionTexts ==
    {FetchError[i] : i \in 1..Len(FetchError)}
    \cup {MissingUpdated[i] : i \in 1..Len(MissingUpdated)}
    \cup {InvalidUpdateTime[i] : i \in 1..Len(InvalidUpdateTime)}

\* C20: whatever the body, the sender, the outcome of the store and of the
\* feed, the reply of the handler is a fixed message, the apology naming a
\* zone of the vocabulary, or a formatted block with the consent notice, and
\* no part of it is the text of an exception.
C20_UserSafeReplies ==
    \A p \in Procs :
        (Done(p) /\ req[p].op = "sms") =>
          /\ \/ reply[p] \in FixedReplies
             \/ \E code \in ValidTimezones :
                  reply[p] =
                    <<"Sorry, unable to retrieve hampuff data for timezone ">>
                    \o code \o
                    <<". Supported timezones: EST, EDT, CST, CDT, MST, MDT, PST, PDT, AKST, AKDT, HST, AST, ChST, GST, UTC, GMT.">>
             \/ /\ Len(reply[p]) > 3
                /\ reply[p][1] = "[Hampuff - "
                /\ reply[p][Len(reply[p])]
                     = "Your SMS request provides consent to send the reply."
          /\ \A i \in 1..Len(reply[p]) : reply[p][i] \notin ExceptionTexts

\* the feed failed with an exception and the sender got the apology
C20_Witness ==
    \E p \in Procs :
        /\ AtContent(p)
        /\ seen[p].fetch # NoFetch /\ ~seen[p].fetch.ok
        /\ Len(seen[p].fetch.error) > 0
        /\ BodyLower(req[p]) = <<"p", "r", "o", "p", " ", "e", "s", "t">>
        /\ reply[p] = MsgPropApology(<<"E", "S", "T">>)

(***************************************************************************)
(* Properties of the direct calls of the store.                            *)
(***************************************************************************)
\* this step is a direct call of op
Calls(op) == call'.at = nreq' /\ nreq' = nreq + 1 /\ call'.op = op

\* the last thing that happened is a direct call of op
LastCall(op) == call.at = nreq /\ nreq > 0 /\ call.op = op

\* C21: update_opt_in_status on a phone that has no registration returns
\* false and leaves the table as it is, without a new row, for either value
\* of the flag.
C21_NoRecordCreated ==
    [][Calls("update_opt_in_status")
       /\ Canon(call'.arg) \notin RegisteredPhones(table)
       => ~call'.ok /\ table' = table]_vars

\* an opt-in of the unregistered phone B has returned false while A is
\* registered; B has no row
C21_Witness ==
    /\ LastCall("update_opt_in_status")
    /\ call.arg = PhoneB /\ call.flag /\ ~call.ok
    /\ RegisteredPhones(table) = {SenderA}
    /\ Len(table) = 1

\* the phone strings is_user_opted_in is asked about: both registered
\* numbers in several formats, and a malformed one
QueryForms == {PhoneA1, PhoneA2, SenderA, PhoneB, SenderB, PhoneBad}

\* the phone has a canonical form, and the opt-in value last supplied for it
\* by a successful register_user or update_opt_in_status is true
LatestIsIn(phone) ==
    /\ NormalizePhone(phone).ok
    /\ latest[Canon(phone)] = "in"

\* C22: after any sequence of register_user and update_opt_in_status calls,
\* is_user_opted_in(p) is true exactly when normalize(p) has a registration
\* whose latest supplied opt-in value is true, whatever the format of p; the
\* value a call of is_user_opted_in returned is that one.
C22_OptedInIsLatest ==
    /\ \A ph \in QueryForms : IsUserOptedIn(table, ph) <=> LatestIsIn(ph)
    /\ LastCall("is_user_opted_in") => (call.ok <=> LatestIsIn(call.arg))

\* is_user_opted_in('(555) 123-4567') has returned true for the number
\* registered as '5551234567' and updated in a later second
C22_Witness ==
    /\ LastCall("is_user_opted_in")
    /\ call.arg = PhoneA2 /\ call.ok
    /\ Len(table) = 1
    /\ table[1].phone_number = PhoneA1
    /\ table[1].last_updated > table[1].registration_date

\* C23: update_opt_in_status(p, v) on a registration whose opted_in already
\* is v returns true and leaves the table, the registration's row included,
\* as it was.
C23_Idempotent ==
    [][Calls("update_opt_in_status")
       /\ Status(table, call'.arg) = (IF call'.flag THEN "in" ELSE "out")
       => call'.ok /\ table' = table]_vars

\* C24: update_opt_in_status changes the opted_in flag and last_updated of
\* the row whose phone_normalized is the canonical form of its argument, and
\* nothing else: that row keeps its id, full_name, call_sign, phone_number,
\* phone_normalized and registration_date, every other row keeps every
\* field, and no row is added or removed.
C24_OnlyFlagAndStamp ==
    [][Calls("update_opt_in_status")
       => /\ Len(table') = Len(table)
          /\ \A i \in 1..Len(table) :
                IF table[i].phone_normalized = Canon(call'.arg)
                THEN table'[i] = [table[i] EXCEPT !.opted_in = call'.flag,
                                                  !.last_updated = now]
                ELSE table'[i] = table[i]]_vars

\* A and B were registered in one second; in the next the update of A, given
\* as '(555) 123-4567', has set A's flag and last_updated and left B's row
C24_Witness ==
    /\ LastCall("update_opt_in_status")
    /\ call.arg = PhoneA2 /\ call.ok /\ ~call.flag
    /\ Len(table) = 2
    /\ table[1].phone_normalized = SenderA
    /\ ~table[1].opted_in
    /\ table[1].registration_date = 0 /\ table[1].last_updated = 1
    /\ table[2].phone_normalized = SenderB
    /\ table[2].opted_in
    /\ table[2].last_updated = 0

\* C25: a registration is never destroyed.  Every row of the table, with its
\* id and its phone, is a row of the table after any step of any handler
\* (stop, start, register, the opt-in and opt-out endpoints, a store call
\* that raises), and a registration answered with success has its row.
C25_NeverDestroyed ==
    [][/\ RowIdentities(table) \subseteq RowIdentities(table')
       /\ Len(table') >= Len(table)
       /\ \A p \in Procs :
             pc[p] = "reg_insert" /\ pc'[p] = "done" /\ reply'[p] = Registered
             => Canon(req[p].phone) \in RegisteredPhones(table')]_vars

\* A registered opted-in, then stop from A was confirmed: A's row is there,
\* with the id it got, opted out
C25_Witness ==
    \E p \in Procs :
        /\ Done(p) /\ IsSms(p, "stop")
        /\ reply[p] = MsgUnregistered
        /\ seen[p].status = "in"
        /\ Len(table) = 1
        /\ table[1].id = 1
        /\ table[1].phone_normalized = Canon(req[p].phone)
        /\ ~table[1].opted_in

\* C26: register_user rejects a call_sign shorter than 3 or longer than 7
\* characters and adds no row for it.
C26_CallSignLength ==
    [][Calls("register_user")
       /\ (Len(call'.sign) < 3 \/ Len(call'.sign) > 7)
       => ~call'.ok /\ table' = table]_vars

\* rows holds every row of tbl once
SameRows(rows, tbl) ==
    /\ Len(rows) = Len(tbl)
    /\ {rows[i] : i \in 1..Len(rows)} = {tbl[i] : i \in 1..Len(tbl)}

\* a registration created later stands before one created earlier; ids are
\* given in the order of creation
NewestFirst(rows) ==
    \A i, j \in 1..Len(rows) : i < j => rows[i].id > rows[j].id

\* C29: get_all_registrations returns every registration, any registration
\* created later before any created earlier, and get_opted_in_users returns
\* the registrations with opted_in true, and only those, in that order.
C29_NewestFirst ==
    /\ LastCall("get_all_registrations")
       => SameRows(call.result, table) /\ NewestFirst(call.result)
    /\ LastCall("get_opted_in_users")
       => /\ SameRows(call.result, SelectSeq(table, OptedInRow))
          /\ NewestFirst(call.result)

\* the phone string has no canonical form
Malformed(phone) == ~NormalizePhone(phone).ok

\* this step is a step of handler 1 on a message from a malformed sender
ShortCodeStep ==
    /\ Acts(1) /\ call' = call
    /\ req'[1].op = "sms"
    /\ Malformed(req'[1].phone)

\* the direct calls on a phone string that does not normalize
MalformedCalls ==
    /\ Calls("get_user_by_phone") /\ Malformed(call'.arg)
       => call'.result = <<>> /\ table' = table
    /\ Calls("update_opt_in_status") /\ Malformed(call'.arg)
       => ~call'.ok /\ table' = table
    /\ Calls("is_user_opted_in") /\ Malformed(call'.arg)
       => ~call'.ok /\ table' = table

\* C28 as stated: for a phone string that does not normalize,
\* get_user_by_phone returns None, update_opt_in_status returns False and
\* is_user_opted_in is false, with the table unchanged; a message from such
\* a sender is answered "no action needed" for stop / unregister, "complete
\* registration first" for start / register and with the refusal for every
\* other body but help.
C28_Stated ==
    [][/\ MalformedCalls
       /\ ShortCodeStep
          => /\ table' = table
             /\ reply'[1] =
                  IF BodyLower(req'[1]) \in {WordStop, WordUnregister}
                  THEN MsgNotRegisteredNoAction
                  ELSE IF BodyLower(req'[1]) \in {WordStart, WordRegister}
                  THEN MsgRegisterFirst
                  ELSE MsgRefusal]_vars

\* C28: the same, for the bodies that are not empty; a message without body
\* from such a sender is answered "No message body received".  No message
\* of such a sender changes a row.
C28_MalformedPhone ==
    [][/\ MalformedCalls
       /\ ShortCodeStep
          => /\ table' = table
             /\ pc'[1] = "done"
             /\ reply'[1] =
                  IF Len(req'[1].body) = 0
                  THEN MsgNoBody
                  ELSE IF BodyLower(req'[1]) \in {WordStop, WordUnregister}
                  THEN MsgNotRegisteredNoAction
                  ELSE IF BodyLower(req'[1]) \in {WordStart, WordRegister}
                  THEN MsgRegisterFirst
                  ELSE MsgRefusal]_vars

\* START from the short code 12345 has been answered "complete registration
\* first" while the table holds a registration
C28_Witness ==
    /\ Done(1)
    /\ req[1].phone = PhoneBad
    /\ BodyLower(req[1]) = WordStart
    /\ reply[1] = MsgRegisterFirst
    /\ call.at < nreq
    /\ Len(table) = 1

(***************************************************************************)
(* Properties of the pure functions.                                       *)
(***************************************************************************)
\* the ten digits that are no number of the numbering plan
NoPlanNumber == <<"1", "2", "3", "4", "5", "6", "7", "8", "9", "0">>

\* C27: the phone strings that write one number as ten digits, as 1 and ten
\* digits or as +1 and ten digits, bare or with brackets, blanks, hyphens or
\* dots, all normalize to +1 followed by the ten digits; the strings of ten
\* digits that are no number of the plan are rejected in every writing.
C27_SameCanonicalForm ==
    call.op = "normalize_phone_number"
    => \A d \in NationalNumbers :
          call.arg \in PhoneForms(d)
          => IF d = NoPlanNumber THEN ~call.ok
             ELSE call.ok /\ call.result = <<"+", "1">> \o d

\* '1 (555) 123-4567' has been normalized to +15551234567
C27_Witness ==
    /\ call.op = "normalize_phone_number"
    /\ call.arg = <<"1", " ", "(", "5", "5", "5", ")", " ", "1", "2", "3",
                    "-", "4", "5", "6", "7">>
    /\ call.ok
    /\ call.result = SenderA

\* the rule of each region, by the upper-cased codes of the region
RegionRules ==
    { <<{<<"E", "S", "T">>, <<"E", "D", "T">>}, "US/Eastern">>,
      <<{<<"C", "S", "T">>, <<"C", "D", "T">>}, "US/Central">>,
      <<{<<"M", "S", "T">>, <<"M", "D", "T">>}, "US/Mountain">>,
      <<{<<"P", "S", "T">>, <<"P", "D", "T">>}, "US/Pacific">>,
      <<{<<"A", "K", "S", "T">>, <<"A", "K", "D", "T">>}, "US/Alaska">>,
      <<{<<"H", "S", "T">>}, "US/Hawaii">>,
      <<{<<"A", "S", "T">>}, "America/Puerto_Rico">>,
      <<{<<"C", "H", "S", "T">>, <<"G", "S", "T">>}, "Pacific/Guam">>,
      <<{<<"U", "T", "C">>, <<"G", "M", "T">>}, "UTC">> }

\* C30: _get_timezone_from_code resolves every supported code, in any
\* letter case, to the rule of its region, the two codes of a standard /
\* daylight pair, ChST and GST, and UTC and GMT to one rule each, and raises
\* for every word outside the vocabulary.
C30_Resolve ==
    call.op = "_get_timezone_from_code"
    => IF \E r \in RegionRules : Upper(call.arg) \in r[1]
       THEN /\ call.ok
            /\ \A r \in RegionRules :
                  Upper(call.arg) \in r[1] => call.result = <<r[2]>>
       ELSE ~call.ok /\ call.result = <<>>

\* 'chst' has been resolved to the rule of Guam
C30_Witness ==
    /\ call.op = "_get_timezone_from_code"
    /\ call.arg = <<"c", "h", "s", "t">>
    /\ call.ok
    /\ call.result = <<"Pacific/Guam">>

(***************************************************************************)
(* Properties of the provider.                                             *)
(***************************************************************************)
\* the fields of a record besides the update time, with their labels
FieldLabels ==
    { <<"solarflux", "\n\tSolar Flux  = ">>, <<"aindex", "\n\tA Index     = ">>,
      <<"kindex", "\n\tK Index     = ">>, <<"sunspots", "\n\tSunspot #   = ">>,
      <<"muf", "\n\tMUF         = ">>, <<"xray", "\n\tXRay        = ">>,
      <<"solarwind", "\n\tSolar Winds = ">> }

\* the segment of a text that follows a label
ValueAfter(text, label) ==
    text[(CHOOSE i \in 1..Len(text) : text[i] = label) + 1]

\* the update field is a text in the format of the feed
Parsable(update) == update # None /\ StrpTime(update).ok

\* C31: _format_hampuff_response succeeds on every record whose update time
\* is there and parsable, with N/A on the line of every other field that is
\* absent and the value on the line of every field that is there, and raises
\* ValueError on every record whose update time is missing or unparsable.
C31_Format ==
    call.op = "_format_hampuff_response"
    => IF "updated" \in DOMAIN call.data /\ Parsable(call.data.updated)
       THEN /\ call.ok
            /\ \A f \in FieldLabels :
                  ValueAfter(call.result, f[2])
                    = IF f[1] \in DOMAIN call.data THEN call.data[f[1]]
                      ELSE "N/A"
       ELSE ~call.ok /\ call.error = "ValueError"

\* the plan of _generate_response for the message of p
PlanOf(p) == GenerateResponse(Strip(req[p].body), BodyLower(req[p]))

\* C32: a request fetches at its one fetch step and nowhere else: the step
\* is the first fetch of the request and ends the request, its reply is the
\* block of the record this very fetch returned with the consent notice, or
\* the apology of the branch when the fetch or the formatting failed; a valid
\* propagation or legacy query of an opted-in sender ends with a fetch made.
C32_OneFetchPerQuery ==
    [][ \A p \in Procs :
          /\ (pc[p] = "sms_fetch" /\ pc'[p] # pc[p])
             => LET fetched == seen'[p].fetch
                IN  /\ seen[p].fetch = NoFetch
                    /\ fetched # NoFetch
                    /\ pc'[p] = "done"
                    /\ reply'[p] =
                         IF fetched.ok
                            /\ FormatHampuffResponse(fetched.data,
                                                     PlanOf(p).zone).ok
                         THEN DataReply(fetched.data, PlanOf(p).zone)
                         ELSE PlanOf(p).text
          /\ (seen'[p].fetch # seen[p].fetch /\ seen'[p].fetch # NoFetch)
             => pc[p] = "sms_fetch"
          /\ ( /\ Acts(p) /\ pc'[p] = "done"
                /\ req'[p].op = "sms" /\ seen'[p].status = "in"
                /\ Branch(BodyLower(req'[p])) = "gate"
                /\ GenerateResponse(Strip(req'[p].body),
                                    BodyLower(req'[p])).fetch )
             => seen'[p].fetch # NoFetch
      ]_vars

\* hampuffp was answered with the block of the summer record its fetch
\* returned
C32_Witness ==
    \E p \in Procs :
        /\ AtContent(p)
        /\ BodyLower(req[p]) = <<"h", "a", "m", "p", "u", "f", "f", "p">>
        /\ seen[p].fetch.ok /\ seen[p].fetch.data = SummerSolarData
        /\ reply[p] = DataReply(SummerSolarData, "US/Pacific")

(***************************************************************************)
(* Further properties of the classifier.                                   *)
(***************************************************************************)
\* C33: a message of an opted-in sender that contains hampuff in any letter
\* case, contains neither token and is not 4 characters long is answered with
\* the data block under its Hampuff header with the consent notice, or with
\* one of the two apologies that name hampuff, never with the default
\* message or the refusal.
C33_HampuffAnswered ==
    \A p \in Procs :
        ( /\ AtContent(p)
          /\ Contains(<<"h", "a", "m", "p", "u", "f", "f">>, BodyLower(req[p]))
          /\ ~Contains(<<"f", "u", "c", "k">>, BodyLower(req[p]))
          /\ ~Contains(<<"s", "h", "i", "t">>, BodyLower(req[p]))
          /\ Len(BodyLower(req[p])) # 4 )
        => /\ reply[p] # <<"Wrong number. Please waste someone else's time.">>
           /\ reply[p] # <<"You are not registered for SMS service. Please visit www.hampuff.com/register to opt-in.">>
           /\ \/ /\ reply[p][1] = "[Hampuff - "
                 /\ reply[p][Len(reply[p])] = "Your SMS request provides consent to send the reply."
              \/ reply[p] = <<"Sorry, unable to retrieve hampuff data at this time.">>
              \/ reply[p][1] = "Sorry, unable to retrieve hampuff data for timezone "

\* 'Prop est Hampuff' was taken by the prop rule and answered with the data
\* block
C33_Witness ==
    \E p \in Procs :
        /\ AtContent(p)
        /\ BodyLower(req[p]) = <<"p", "r", "o", "p", " ", "e", "s", "t", " ", "h", "a", "m", "p", "u", "f", "f">>
        /\ reply[p][1] = "[Hampuff - "
        /\ reply[p][2] = "Eastern"

(***************************************************************************)
(* Properties of the web endpoints.                                        *)
(***************************************************************************)
\* C34: a GET or POST request to /register is answered with status 200 and
\* the page 'Hampuff SMS Registration'.
C34_RegisterPage ==
    \A p \in Procs :
        (Done(p) /\ req[p].op = "register_page")
        => reply[p][1] = "200" /\ reply[p][2] = "Hampuff SMS Registration"

(***************************************************************************)
(* Further properties of the store and of the normalizer.                  *)
(***************************************************************************)
\* C35: register_user with a phone string that does not normalize raises
\* the ValueError of normalize_phone_number and leaves the table as it is:
\* nothing is looked up under the phone and nothing is inserted.
C35_InvalidPhoneRejected ==
    [][Calls("register_user") /\ Malformed(call'.arg)
       => /\ ~call'.ok
          /\ call'.result \in {<<"Invalid phone number">>,
                               <<"Could not parse phone number">>}
          /\ table' = table]_vars

\* register_user('12345') has raised while another phone is registered
C35_Witness ==
    /\ LastCall("register_user")
    /\ call.arg = <<"1", "2", "3", "4", "5">>
    /\ ~call.ok
    /\ call.result = <<"Invalid phone number">>
    /\ Len(table) = 1

\* the table that holds one registration made with the phone string raw
\* under the canonical phone n
OneRegistration(raw, n) == InsertRow(<<>>, "John Doe", SignOk, raw, n, TRUE)

\* C36: normalize_phone_number maps every canonical phone it returns to
\* itself, and so get_user_by_phone called with the canonical phone, which
\* normalizes it once more, finds the row stored under it.
C36_NormalizeIdempotent ==
    (call.op = "normalize_phone_number" /\ call.ok)
    => /\ NormalizePhone(call.result).ok
       /\ NormalizePhone(call.result).value = call.result
       /\ GetUserByPhone(OneRegistration(call.arg, call.result), call.result)
            = OneRegistration(call.arg, call.result)

\* the canonical phone +15559999999 has been normalized to itself
C36_Witness ==
    /\ call.op = "normalize_phone_number"
    /\ call.arg = <<"+", "1", "5", "5", "5", "9", "9", "9", "9", "9", "9", "9">>
    /\ call.ok
    /\ call.result = call.arg

\* ---------------------------------------------------------------------
\* Properties of the body normalization
\* ---------------------------------------------------------------------

\* What a finished message does to the store, by its folded body alone
EffectOf(tbl, body_lower, phone) ==
    IF body_lower \in {WordStop, WordUnregister}
    THEN UpdateOptInStatus(tbl, phone, FALSE).table
    ELSE IF body_lower \in {WordStart, WordRegister}
    THEN UpdateOptInStatus(tbl, phone, TRUE).table
    ELSE tbl

\* The message with its body replaced by the trimmed, case-folded body
Folded(r) == [r EXCEPT !.body = BodyLower(r)]

\* Whether the reference asks the feed for a message of a sender with
\* this status
ReferenceFetches(r, status) ==
    /\ status = "in"
    /\ BodyLower(r) \notin {WordStop, WordUnregister, WordStart,
                            WordRegister, WordHelp, WordQuestion}
    /\ FirstMatch(ContentRules, Strip(r.body), BodyLower(r)).fetch

\* C37: the reply to a message with a non-empty body, and what the
\* message does to the store, are those of the trimmed, case-folded body:
\* when the store answers, the feed is asked exactly when the reference
\* asks it for the folded message, the reply is the reference reply of the
\* folded message for the sender's status and the feed's outcome, and the store
\* changes by the folded body's effect in the step that finishes the
\* message and in no other step; messages whose bodies differ only in
\* case or surrounding whitespace (as 'HampuffE' and 'hampuffe') are
\* therefore answered alike.
C37_FoldedBodyDecides ==
    [][\A p \in Procs :
        (Acts(p) /\ req'[p].op = "sms" /\ Len(req'[p].body) > 0)
        => /\ (pc'[p] = "done" /\ seen'[p].status # "error")
              => /\ (seen'[p].fetch # NoFetch)
                      = ReferenceFetches(Folded(req'[p]), seen'[p].status)
                 /\ reply'[p] = ReferenceReply(Folded(req'[p]),
                                               seen'[p].status,
                                               seen'[p].fetch)
           /\ table' = IF pc'[p] = "done" /\ seen'[p].status # "error"
                        THEN EffectOf(table, BodyLower(req'[p]),
                                      req'[p].phone)
                        ELSE table]_vars

C37_Witness ==
    /\ pc[1] = "done"
    /\ req[1].op = "sms"
    /\ req[1].body = <<"H", "a", "m", "p", "u", "f", "f", "E">>
    /\ seen[1].status = "in"
    /\ seen[1].fetch.ok
    /\ reply[1][1] = "[Hampuff - "
    /\ reply[1][2] = "Eastern"
\* ---------------------------------------------------------------------
\* Properties of the use of the feed
\* ---------------------------------------------------------------------

\* A body that is a valid prop command or a well-formed legacy command and
\* is neither a command word, nor profane, nor four characters long
FetchingBody(body) ==
    /\ Lower(body) \notin {WordStop, WordUnregister, WordStart,
                           WordRegister, WordHelp, WordQuestion}
    /\ ~Contains(TokenA, Lower(body))
    /\ ~Contains(TokenB, Lower(body))
    /\ Len(body) # 4
    /\ \/ RuleMatches("prop", body, Lower(body))
       \/ /\ Len(body) = 8
          /\ StartsWith(Lower(body), WordHampuff)
          /\ Lower(body)[8] \in {"e", "p"}

\* The message of handler p comes from a sender who passed the gate and
\* carries a fetching body
DueMessage(r, status) ==
    /\ r.op = "sms"
    /\ status = "in"
    /\ FetchingBody(Strip(r.body))

\* C38 as stated: the feed is fetched only while handling a message of a
\* sender who passed the gate and whose body is a valid prop command or a
\* well-formed legacy command.
C38_Stated ==
    [][\A p \in Procs :
        (Acts(p) /\ seen'[p].fetch # NoFetch)
        => DueMessage(req'[p], seen'[p].status)]_vars

\* C38 (amended): handle_sms_request fetches the feed only in the step that
\* answers a message of a sender who passed the gate and whose body is a
\* valid prop command or a well-formed legacy command, so that stop, start,
\* help, refused, profane, four-character, default and malformed legacy
\* messages cause no fetch; the only other requests that fetch are those of
\* the propagation API, for any caller, when the code is supported.
C38_FetchOnlyWhenDue ==
    [][\A p \in Procs :
        (Acts(p) /\ seen'[p].fetch # NoFetch)
        => /\ pc'[p] = "done"
           /\ \/ DueMessage(req'[p], seen'[p].status)
              \/ /\ req'[p].op \in {"api_propagation", "curl_propagation"}
                 /\ Upper(req'[p].timezone) \in ValidTimezones]_vars

\* 'prop EST' of an opted-in sender was answered after a fetch
C38_Witness ==
    /\ pc[1] = "done"
    /\ req[1].op = "sms"
    /\ BodyLower(req[1]) = <<"p", "r", "o", "p", " ", "e", "s", "t">>
    /\ seen[1].status = "in"
    /\ seen[1].fetch # NoFetch
\* ---------------------------------------------------------------------
\* Termination of the message handler
\* ---------------------------------------------------------------------

\* C39: every call of handle_sms_request ends with exactly one reply: a
\* message that was taken is eventually answered; the reply is set in the
\* step that ends the call and in no other, and it is a non-empty text; no
\* step of a handler that is in a call leaves it in that call (no call is
\* repeated); whatever the body, the sender, the store and the feed do.
C39_OneReply ==
    /\ [][\A p \in Procs :
            /\ (Acts(p) /\ req'[p].op = "sms")
               => (pc'[p] = "done") = (Len(reply'[p]) > 0)
            /\ ( /\ pc[p] \notin {"idle", "done"}
                 /\ <<seen[p], reply[p], req[p]>>'
                      # <<seen[p], reply[p], req[p]>> )
               => pc'[p] # pc[p]]_vars
    /\ \A p \in Procs :
          (req[p].op = "sms" /\ pc[p] # "done")
          ~> (pc[p] = "done" /\ Len(reply[p]) > 0)

\* START was answered although the store raised
C39_Witness ==
    /\ pc[1] = "done"
    /\ req[1].op = "sms"
    /\ BodyLower(req[1]) = WordStart
    /\ seen[1].status = "error"
    /\ Len(reply[1]) > 0
\* ---------------------------------------------------------------------
\* Errors of the propagation API
\* ---------------------------------------------------------------------

\* C40: the propagation API answers 400 'Invalid timezone code' only when
\* the requested code is not a supported one, and answers a failure of the
\* feed (the fetch or the parse of its document) for a supported code
\* with the 500 response.
C40_ApiErrors ==
    \A p \in Procs :
        (Done(p) /\ req[p].op \in {"api_propagation", "curl_propagation"})
        => /\ reply[p][1] = "400"
              => Len(TimezoneFromCode(Upper(req[p].timezone))) = 0
           /\ ( /\ Len(TimezoneFromCode(Upper(req[p].timezone))) > 0
                /\ seen[p].fetch # NoFetch
                /\ ~seen[p].fetch.ok )
              => reply[p][1] = "500"
====
